---- MODULE Spec2Model ----
(***************************************************************************)
(* A model of the ctf-autopilot execution pipeline:                        *)
(*   - the job lifecycle (routers/jobs.py run_job, tasks.py _run_analysis, *)
(*     services/job_service.py),                                           *)
(*   - the sandbox executor (services/sandbox_service.py),                 *)
(*   - the WebSocket broadcaster (websocket.py),                           *)
(*   - the evidence extractor, the playbook catalog, the tool cache, the   *)
(*     report validation, the solve history, the sessions, the upload      *)
(*     names and the containers of a job,                                  *)
(*   - the lock sections of the broadcaster and the rate limiter           *)
(*     (middleware/rate_limit.py).                                         *)
(* Each part has its own next-state relation and specification; the        *)
(* variables of the other parts stay at their initial values.              *)
(***************************************************************************)
EXTENDS Integers, Sequences, FiniteSets, TLC

(***************************************************************************)
(* Bounds of the model.                                                    *)
(***************************************************************************)
NumReqs == 2        \* run requests issued over an execution
NumWorkers == 1     \* Celery worker slots
NumSteps == 2       \* steps of the selected playbook

None == "none"

Jobs == {"j1"}
Reqs == 1..NumReqs
Workers == 1..NumWorkers

\* models.py JobStatus
JobStatus == {"pending", "queued", "running", "completed", "failed"}

\* Texts of the exceptions the external collaborators (report generation,
\* file IO) can raise; str(e) of an httpx timeout is the empty string.
ExcMsgs == {"", "http"}
\* str(e) of the AttributeError raised in run_command's ContainerError handler
AttrErrorMsg == "attr"
\* str(e) of the PendingRollbackError a session raises on every statement
\* after one of its flushes has failed, until rollback() is called on it
PendingRollbackMsg == "pending_rollback"

\* Outcomes of one containers.run call for an allowlisted tool.
StepOutcomes == {"ok", "nonzero", "image_missing", "launch_fault", "hang"}

VARIABLES
    status,             \* Job.status, per job (the committed row)
    error_message,      \* Job.error_message
    timeline,           \* Job.timeline: sequence of event texts
    commands_executed,  \* Job.commands_executed
    commands,           \* the commands table: the rows [id, job_id] in insertion order
    flag_candidates,    \* the flag_candidates table: the rows [job_id, value]
    queue,              \* Celery broker: dispatched, not yet started tasks per job
    req,                \* run_job handlers: [pc, job, seen (the status read)]
    wk,                 \* worker tasks: [pc, job, results, saved, last, exc]
    sb,                 \* sandbox executor: the last call, its result and its launches
    job_connections,    \* ConnectionManager.job_connections: job id -> set of sockets
    global_connections, \* ConnectionManager.global_connections
    sock,               \* the WebSocket handlers: [st, endpoint]
    pub,                \* the broadcast call in progress, and what it has sent
    ev,                 \* evidence extractor: a call of extract_flags and what it returned
    pb,                 \* playbooks: a call of _select_playbook or an argument resolution, and its result
    tc,                 \* tool availability cache: the clock, the class attributes, the responses given
    wv,                 \* report validation: a call of _validate_writeup and what it returned
    hs,                 \* solve history: a call of get_similar_solves and the shortlist it returned
    au,                 \* authentication: the clock, the sessions table, the logouts made, the last response
    sf,                 \* upload names: a call of sanitize_filename and what it returned
    ct,                 \* sandbox containers of one job: the playbook run, the terminal handler, the containers alive
    lk,                 \* broadcaster lock: its holder, the subscriber map with its keys, each coroutine's place in its lock section
    rl                  \* rate limiter: the clock, the timestamps kept per key, the requests in flight, what was forwarded

jobVars == <<status, error_message, timeline, commands_executed, commands, flag_candidates,
            queue, req, wk>>

wsVars == <<job_connections, global_connections, sock, pub>>

fnVars == <<ev, pb, tc, wv, hs, au, sf, ct, lk, rl>>

vars == <<jobVars, sb, wsVars, fnVars>>

CommandId(n) == n   \* f"cmd_{n:03d}": the id is the index, zero padded

\* a worker slot with no task; last and exc tell how its last task ended
IdleWorker(j, results, last, exc) ==
    [pc |-> "idle", job |-> j, results |-> results, saved |-> 0, last |-> last, exc |-> exc]

JobInit ==
    /\ status = [j \in Jobs |-> "pending"]
    /\ error_message = [j \in Jobs |-> None]
    /\ timeline = [j \in Jobs |-> <<"Job created">>]
    /\ commands_executed = [j \in Jobs |-> 0]
    /\ commands = <<>>
    /\ flag_candidates = <<>>
    /\ queue = [j \in Jobs |-> 0]
    /\ req = [r \in Reqs |-> [pc |-> "new", job |-> None, seen |-> None]]
    /\ wk = [w \in Workers |-> IdleWorker(None, <<>>, None, None)]

(***************************************************************************)
(* routers/jobs.py run_job.  The handler reads the job (await), checks the  *)
(* status it read, and then writes QUEUED, commits (await) and dispatches  *)
(* the Celery task.  Other handlers and workers run between the two awaits.*)
(***************************************************************************)
RunAccepted_NotCompleted(s) == s # "completed"

\* run_job line 162
RunAccepted(s) == s \in {"pending", "failed"}

\* run_job lines 156-166: SELECT the job, reject with 400 unless the status
\* read is PENDING or FAILED.
RunJobCheck(r, j) ==
    /\ req[r].pc = "new"
    /\ UNCHANGED <<sb, wsVars, fnVars, flag_candidates>>
    /\ \A q \in Reqs : q < r => req[q].pc # "new"    \* requests are numbered as they arrive
    /\ req' = [req EXCEPT ![r] = [pc |-> IF RunAccepted(status[j]) THEN "accepted" ELSE "rejected",
                                  job |-> j, seen |-> status[j]]]
    /\ UNCHANGED <<status, error_message, timeline, commands_executed, commands, queue, wk>>

\* run_job lines 168-179: job.status = QUEUED; timeline.append (an in-place
\* mutation of a plain JSON column, which the ORM does not track, so the
\* UPDATE carries the status only); commit; run_analysis_task.delay.
RunJobQueue(r) ==
    /\ req[r].pc = "accepted"
    /\ UNCHANGED <<sb, wsVars, fnVars, flag_candidates>>
    /\ status' = [status EXCEPT ![req[r].job] = "queued"]
    /\ queue' = [queue EXCEPT ![req[r].job] = @ + 1]
    /\ req' = [req EXCEPT ![r].pc = "done"]
    /\ UNCHANGED <<error_message, timeline, commands_executed, commands, wk>>

(***************************************************************************)
(* services/job_service.py                                                 *)
(***************************************************************************)
\* update_status lines 62-63: the error text is stored only when truthy
NewErrorMessage(old, msg) == IF msg # None /\ msg # "" THEN msg ELSE old

\* update_status: status, error_message and timeline after the call
UpdateStatus(j, s, event, msg) ==
    /\ status' = [status EXCEPT ![j] = s]
    /\ error_message' = [error_message EXCEPT ![j] = NewErrorMessage(@, msg)]
    /\ timeline' = [timeline EXCEPT ![j] = Append(@, event)]

\* add_timeline_event
AddTimelineEvent(j, event) ==
    timeline' = [timeline EXCEPT ![j] = Append(@, event)]

(***************************************************************************)
(* tasks.py _run_analysis, one action per await that changes state.        *)
(***************************************************************************)
\* lines 181-188: the except clause issues no rollback and deletes nothing;
\* the rows the run committed before the fault stay as they are
RowsAfterFault_RolledBack(rows, j) == SelectSeq(rows, LAMBDA row : row.job_id # j)
RowsAfterFault(rows, j) == rows

\* The except clause, lines 181-188: mark FAILED with str(e), re-raise.
Fail(w, results, msg) ==
    /\ UpdateStatus(wk[w].job, "failed", "Analysis failed", msg)
    /\ commands' = RowsAfterFault(commands, wk[w].job)
    /\ flag_candidates' = RowsAfterFault(flag_candidates, wk[w].job)
    /\ wk' = [wk EXCEPT ![w] = IdleWorker(wk[w].job, results, "raised", msg)]

\* The except clause, lines 181-188, entered with the IntegrityError of a
\* failed flush.  The flush has rolled the transaction back and left the
\* session inactive; the clause calls no db.rollback(), so the SELECT that
\* opens update_status (job_service.py line 48) raises PendingRollbackError
\* before any field is written.  The task ends with that exception and the
\* job row keeps the status committed last.
FailAfterFlushFault(w) ==
    /\ wk' = [wk EXCEPT ![w] = IdleWorker(wk[w].job, <<>>, "raised", PendingRollbackMsg)]
    /\ UNCHANGED <<status, error_message, timeline, commands, flag_candidates>>

\* lines 44-70: a worker takes a dispatched task, loads the job and marks it
\* RUNNING, whatever status the job has.
TaskBegin(w, j) ==
    /\ wk[w].pc = "idle"
    /\ UNCHANGED <<sb, wsVars, fnVars, flag_candidates>>
    /\ \A v \in Workers : v < w => wk[v].pc # "idle"  \* the first free worker slot takes it
    /\ queue[j] > 0
    /\ queue' = [queue EXCEPT ![j] = @ - 1]
    /\ UpdateStatus(j, "running", "Analysis started", None)
    /\ wk' = [wk EXCEPT ![w] = [pc |-> "running", job |-> j, results |-> <<>>, saved |-> 0,
                                last |-> None, exc |-> None]]
    /\ UNCHANGED <<commands_executed, commands, req>>

\* lines 83-88: select the playbook and record it in the timeline
SelectPlaybook(w) ==
    /\ wk[w].pc = "running"
    /\ UNCHANGED <<sb, wsVars, fnVars, flag_candidates>>
    /\ AddTimelineEvent(wk[w].job, "Selected playbook")
    /\ wk' = [wk EXCEPT ![w].pc = "steps"]
    /\ UNCHANGED <<status, error_message, commands_executed, commands, queue, req>>

\* sandbox_service.py run_command lines 350-404, for an allowlisted tool:
\* the result dict by outcome of containers.run.  A ContainerError (non-zero
\* exit) enters the handler of lines 385-390, which reads e.stdout;
\* docker.errors.ContainerError carries container, exit_status, command,
\* image and stderr only, so the handler raises AttributeError and
\* run_command returns nothing.
StepResult(o, n) ==
    CASE o = "ok"            -> [command_id |-> CommandId(n), exit_code |-> 0]
      [] o = "image_missing" -> [command_id |-> CommandId(n), exit_code |-> 1]
      [] o = "launch_fault"  -> [command_id |-> CommandId(n), exit_code |-> 1]

\* run_playbook lines 433-468: the loop over the steps, given the outcome of
\* each step's containers.run.  The command id of a step is len(results).  The
\* loop ends when run_command raises, or never when a container hangs
\* (containers.run(detach=False) is called without a timeout).
RECURSIVE PlaybookLoop(_, _)
PlaybookLoop(outs, results) ==
    IF Len(results) = Len(outs) THEN [results |-> results, end |-> "returned"]
    ELSE LET o == outs[Len(results) + 1] IN
         CASE o = "nonzero" -> [results |-> results, end |-> "raised"]
           [] o = "hang"    -> [results |-> results, end |-> "hung"]
           [] OTHER         -> PlaybookLoop(outs, Append(results, StepResult(o, Len(results))))

run_playbook(outs) == PlaybookLoop(outs, <<>>)

\* every way a run of the playbook can go
PlaybookRuns == {run_playbook(outs) : outs \in [1..NumSteps -> StepOutcomes]}

\* tasks.py lines 97-101: the call of run_playbook.  The steps touch no shared
\* state, so the call is one step of the worker.
RunPlaybook(w, run) ==
    /\ wk[w].pc = "steps"
    /\ UNCHANGED <<sb, wsVars, fnVars>>
    /\ CASE run.end = "returned" ->
               /\ wk' = [wk EXCEPT ![w].pc = "save", ![w].results = run.results]
               /\ UNCHANGED <<status, error_message, timeline, commands, flag_candidates>>
         [] run.end = "raised" ->
               Fail(w, run.results, AttrErrorMsg)
         [] run.end = "hung" ->
               /\ wk' = [wk EXCEPT ![w].pc = "hung", ![w].results = run.results]
               /\ UNCHANGED <<status, error_message, timeline, commands, flag_candidates>>
    /\ UNCHANGED <<commands_executed, queue, req>>

\* tasks.py line 31: the Celery hard time limit (20 x sandbox_timeout_seconds)
\* kills the worker process of a task that is still running; no handler runs.
TaskTimeLimit(w) ==
    /\ wk[w].pc = "hung"
    /\ UNCHANGED <<sb, wsVars, fnVars, flag_candidates>>
    /\ wk' = [wk EXCEPT ![w] = IdleWorker(wk[w].job, <<>>, "killed", None)]
    /\ UNCHANGED <<status, error_message, timeline, commands_executed, commands, queue, req>>

\* lines 104-117: db.add(Command(id=command_id, ...)), then increment_commands,
\* which commits.  Command.id alone is the primary key (models.py line 46): an
\* id already in the table makes the INSERT fail with IntegrityError, raised
\* by the flush that precedes the SELECT of increment_commands.
\* models.py line 46: Command.id is the primary key of the table, alone
PrimaryKeyTaken_Never(rows, id) == FALSE
PrimaryKeyTaken(rows, id) == \E i \in 1..Len(rows) : rows[i].id = id

\* job_service.py increment_commands line 95; its commit (line 96) stores the
\* counter together with the Command row added before the call
increment_commands_Skip(n) == n
increment_commands(n) == n + 1

SaveCommand(w) ==
    /\ wk[w].pc = "save"
    /\ UNCHANGED <<sb, wsVars, fnVars>>
    /\ wk[w].saved < Len(wk[w].results)
    /\ LET id == wk[w].results[wk[w].saved + 1].command_id IN
       IF PrimaryKeyTaken(commands, id)
       THEN /\ FailAfterFlushFault(w)
            /\ UNCHANGED commands_executed
       ELSE /\ commands' = Append(commands, [id |-> id, job_id |-> wk[w].job])
            /\ commands_executed' = [commands_executed EXCEPT ![wk[w].job] = increment_commands(@)]
            /\ wk' = [wk EXCEPT ![w].saved = @ + 1]
            /\ UNCHANGED <<status, error_message, timeline, flag_candidates>>
    /\ UNCHANGED <<queue, req>>

\* lines 152-172: save the evidence, build the pack, "Generating writeup...",
\* generate_writeup (an HTTP call that may raise), "Writeup generated"
GenerateWriteup(w, ok, msg) ==
    /\ wk[w].pc = "writeup"
    /\ UNCHANGED <<sb, wsVars, fnVars>>
    /\ IF ok
       THEN /\ timeline' = [timeline EXCEPT ![wk[w].job] =
                               Append(Append(@, "Generating writeup"), "Writeup generated")]
            /\ wk' = [wk EXCEPT ![w].pc = "finish"]
            /\ UNCHANGED <<status, error_message, commands, flag_candidates>>
       ELSE Fail(w, <<>>, msg)
    /\ UNCHANGED <<commands_executed, queue, req>>

\* lines 174-179: mark COMPLETED; the task returns
Complete(w) ==
    /\ wk[w].pc = "finish"
    /\ UNCHANGED <<sb, wsVars, fnVars, flag_candidates>>
    /\ UpdateStatus(wk[w].job, "completed", "Analysis completed successfully", None)
    /\ wk' = [wk EXCEPT ![w] = IdleWorker(wk[w].job, <<>>, "returned", None)]
    /\ UNCHANGED <<commands_executed, commands, queue, req>>

(***************************************************************************)
(* services/sandbox_service.py.  Strings are sequences of characters.      *)
(***************************************************************************)
MaxArgLen == 2      \* characters of one argument
MaxArgs == 1        \* arguments of one call

SeqsUpTo(S, n) == UNION {[1..k -> S] : k \in 0..n}

\* str.isalnum()
AlnumChars == {"a", "l", "s", "r", "m", "b"}
ArgChars == {"a", "-", ".", "/", ";"}
ArgInputs == SeqsUpTo(ArgChars, MaxArgLen)

\* the part of allowed_tools (lines 20-81) the model draws tools from
allowed_tools == {<<"l", "s">>, <<"s", "h">>}

\* tool strings a caller may pass: ls, sh, rm, /b/ls, ../rm, ls/, ls/.., ""
ToolInputs ==
    {<<"l", "s">>, <<"s", "h">>, <<"r", "m">>, <<"/", "b", "/", "l", "s">>,
     <<".", ".", "/", "r", "m">>, <<"l", "s", "/">>,
     <<"l", "s", "/", ".", ".">>, <<>>}

\* the components of a path: the text between the separators
RECURSIVE SplitPath(_, _, _)
SplitPath(str, i, cur) ==
    IF i > Len(str) THEN <<cur>>
    ELSE IF str[i] = "/" THEN <<cur>> \o SplitPath(str, i + 1, <<>>)
    ELSE SplitPath(str, i + 1, Append(cur, str[i]))

IsPathPart(c) == c # <<>> /\ c # <<".">>

\* pathlib: Path(str).name, the last component; empty and "." components are
\* not parts of the path, ".." is one
PathName(str) ==
    LET parts == SelectSeq(SplitPath(str, 1, <<>>), IsPathPart)
    IN  IF parts = <<>> THEN <<>> ELSE parts[Len(parts)]

is_tool_allowed_Any(tool) == TRUE

\* is_tool_allowed, lines 93-96
is_tool_allowed(tool) == PathName(tool) \in allowed_tools

IsOptionChar(c) == c \in AlnumChars \/ c \in {"-", "_", "=", "."}
IsFileChar(c) == c \in AlnumChars \/ c \in {"-", "_", "."}

\* _sanitize_arguments lines 413-419: one argument
SanitizeArg(arg) ==
    IF arg # <<>> /\ arg[1] = "-"
    THEN SelectSeq(arg, IsOptionChar)
    ELSE SelectSeq(PathName(arg), IsFileChar)

IsNonEmpty(a) == a # <<>>

\* _sanitize_arguments lines 406-424: arguments that are empty after the
\* filter are dropped
SanitizeArguments(arguments) ==
    SelectSeq([i \in 1..Len(arguments) |-> SanitizeArg(arguments[i])], IsNonEmpty)

\* the keyword arguments shared by the three containers.run calls
BaseLaunch(kind, command, volumes, read_only) ==
    [kind |-> kind, command |-> command, volumes |-> volumes,
     network_disabled |-> TRUE, user |-> "1000:1000", read_only |-> read_only,
     security_opt |-> {"no-new-privileges"}, cap_drop |-> {"ALL"}, remove |-> TRUE]

ToolLaunch_Writable(command) ==
    BaseLaunch("tool", command, {[bind |-> "/workspace", mode |-> "rw"]}, TRUE)

\* run_command lines 351-373
ToolLaunch(command) ==
    BaseLaunch("tool", command, {[bind |-> "/workspace", mode |-> "ro"]}, TRUE)

\* run_python_script lines 268-298 (read_only is not passed: "to allow venv
\* creation in /tmp")
ScriptLaunch(command) ==
    BaseLaunch("script", command,
               {[bind |-> "/workspace", mode |-> "ro"], [bind |-> "/script", mode |-> "ro"]}, FALSE)

\* check_tool_availability lines 155-176
ProbeLaunch(command) ==
    BaseLaunch("probe", command, {[bind |-> "/tmp/check_tools.py", mode |-> "ro"]}, FALSE)

\* run_command lines 375-404: the returned dict by outcome of containers.run;
\* the ContainerError handler raises AttributeError (see StepResult)
CommandResult(o) ==
    CASE o = "ok"            -> [end |-> "returned", exit_code |-> 0, error |-> FALSE]
      [] o = "image_missing" -> [end |-> "returned", exit_code |-> 1, error |-> TRUE]
      [] o = "launch_fault"  -> [end |-> "returned", exit_code |-> 1, error |-> TRUE]
      [] o = "nonzero"       -> [end |-> "raised", exit_code |-> None, error |-> TRUE]
      [] o = "hang"          -> [end |-> "blocked", exit_code |-> None, error |-> FALSE]

\* no call of the executor
SbIdle == [op |-> None, tool |-> <<>>, arguments |-> <<>>, pip |-> FALSE,
           result |-> None, launched |-> <<>>, pc |-> "idle"]

\* a call of the executor with its inputs, before it runs
SbCalls ==
    {[op |-> "run_command", tool |-> tool, arguments |-> arguments, pip |-> FALSE,
      result |-> None, launched |-> <<>>, pc |-> "call"] :
         tool \in ToolInputs, arguments \in SeqsUpTo(ArgInputs, MaxArgs)}
    \cup {[op |-> "run_python_script", tool |-> <<>>, arguments |-> <<>>, pip |-> pip,
           result |-> None, launched |-> <<>>, pc |-> "call"] : pip \in BOOLEAN}
    \cup {[op |-> "check_tool_availability", tool |-> <<>>, arguments |-> <<>>, pip |-> FALSE,
           result |-> None, launched |-> <<>>, pc |-> "call"]}

\* run_command lines 327-404
RunCommand(o) ==
    /\ sb.op = "run_command" /\ sb.pc = "call"
    /\ sb' = IF ~is_tool_allowed(sb.tool)
             THEN [sb EXCEPT !.pc = "done", !.result = [end |-> "returned", exit_code |-> 1, error |-> TRUE]]
             ELSE [sb EXCEPT !.pc = "done", !.result = CommandResult(o),
                             !.launched = <<ToolLaunch(<<sb.tool>> \o SanitizeArguments(sb.arguments))>>]
    /\ UNCHANGED <<jobVars, wsVars, fnVars>>

\* run_python_script lines 211-325: with or without pip packages
RunPythonScript(o) ==
    /\ sb.op = "run_python_script" /\ sb.pc = "call"
    /\ sb' = [sb EXCEPT !.pc = "done", !.result = [end |-> "returned", exit_code |-> IF o = "ok" THEN 0 ELSE 1,
                                    error |-> FALSE],
                        !.launched = <<ScriptLaunch(IF sb.pip THEN <<"bash", "/script/run.sh">>
                                                    ELSE <<"python3", "/script/solve.py">>)>>]
    /\ UNCHANGED <<jobVars, wsVars, fnVars>>

\* check_tool_availability lines 112-193: the probe of the sandbox image
ProbeTools ==
    /\ sb.op = "check_tool_availability" /\ sb.pc = "call"
    /\ sb' = [sb EXCEPT !.pc = "done", !.result = [end |-> "returned", exit_code |-> 0, error |-> FALSE],
                        !.launched = <<ProbeLaunch(<<"python3", "/tmp/check_tools.py">>)>>]
    /\ UNCHANGED <<jobVars, wsVars, fnVars>>

(***************************************************************************)
(* websocket.py ConnectionManager and routers/ws.py.  The code between two *)
(* awaits of a coroutine is one step of the event loop; the lock is held   *)
(* over sections without an await.  A dictionary key without subscribers   *)
(* is the empty set (job_connections.get(job_id, set())).                  *)
(***************************************************************************)
NumSockets == 3     \* WebSocket connections opened over an execution

Sockets == 1..NumSockets
WsJobs == {"j1", "j2"}
EventKinds == {"job_update", "job_log"}

\* ConnectionManager.__init__, no handler started, no broadcast called
WsInit ==
    /\ job_connections = [j \in WsJobs |-> {}]
    /\ global_connections = {}
    /\ sock = [s \in Sockets |-> [st |-> "new", endpoint |-> None]]
    /\ pub = [pc |-> "idle", kind |-> None, job |-> None,
              job_clients |-> <<>>, global_clients |-> <<>>, disconnected |-> <<>>,
              sent |-> {}, received |-> {},
              then |-> [job_connections |-> [j \in WsJobs |-> {}], global_connections |-> {}]]

\* the next connection to be opened: sockets are numbered in arrival order
IsNextSocket(s) == sock[s].st = "new" /\ \A q \in Sockets : q < s => sock[q].st # "new"

\* set.discard
discard_Keep(set, s) == set
discard(set, s) == set \ {s}

\* connect_global lines 18-23, called by websocket_all_jobs (ws.py 24)
connect_global(s) ==
    /\ IsNextSocket(s)
    /\ UNCHANGED <<jobVars, sb, fnVars>>
    /\ global_connections' = global_connections \cup {s}
    /\ sock' = [sock EXCEPT ![s] = [st |-> "open", endpoint |-> "global"]]
    /\ UNCHANGED <<job_connections, pub>>

\* connect_job lines 25-32, called by websocket_job (ws.py 56)
connect_job(s, j) ==
    /\ IsNextSocket(s)
    /\ UNCHANGED <<jobVars, sb, fnVars>>
    /\ job_connections' = [job_connections EXCEPT ![j] = @ \cup {s}]
    /\ sock' = [sock EXCEPT ![s] = [st |-> "open", endpoint |-> j]]
    /\ UNCHANGED <<global_connections, pub>>

\* the peer closes the connection: from now on send_text raises, and the
\* handler's receive_text (ws.py 29, 60) will raise WebSocketDisconnect
PeerCloses(s) ==
    /\ sock[s].st \in {"open", "stalled"}
    /\ UNCHANGED <<jobVars, sb, fnVars>>
    /\ sock' = [sock EXCEPT ![s].st = "gone"]
    /\ UNCHANGED <<job_connections, global_connections, pub>>

\* the peer stops reading: from now on a send_text to it does not complete
\* (the await of line 66, 73 or 116 stays pending; the code sets no timeout)
PeerStalls(s) ==
    /\ sock[s].st = "open"
    /\ UNCHANGED <<jobVars, sb, fnVars>>
    /\ sock' = [sock EXCEPT ![s].st = "stalled"]
    /\ UNCHANGED <<job_connections, global_connections, pub>>

\* disconnect_global lines 34-38
disconnect_global(s) ==
    /\ global_connections' = discard(global_connections, s)
    /\ UNCHANGED job_connections

\* disconnect_job lines 40-47
disconnect_job(s, j) ==
    /\ job_connections' = [job_connections EXCEPT ![j] = discard(@, s)]
    /\ UNCHANGED global_connections

\* ws.py lines 34-38 and 64-68: the handler of a closed connection leaves
HandlerExit(s) ==
    /\ sock[s].st = "gone"
    /\ UNCHANGED <<jobVars, sb, fnVars>>
    /\ IF sock[s].endpoint = "global" THEN disconnect_global(s)
       ELSE disconnect_job(s, sock[s].endpoint)
    /\ sock' = [sock EXCEPT ![s].st = "closed"]
    /\ UNCHANGED pub

\* list(set): the sockets of a set, here in arrival order
AsList(set) ==
    CHOOSE l \in [1..Cardinality(set) -> set] :
        \A a, b \in 1..Cardinality(set) : a < b => l[a] < l[b]

\* the subscribers a broadcast of this kind snapshots under the lock:
\* broadcast_job_update lines 60-62, broadcast_job_log lines 111-112
Snapshot_AllJobs(kind, j) ==
    [job_clients |-> AsList(UNION {job_connections[k] : k \in WsJobs}),
     global_clients |-> IF kind = "job_update" THEN AsList(global_connections) ELSE <<>>]
Snapshot(kind, j) ==
    [job_clients |-> AsList(job_connections[j]),
     global_clients |-> IF kind = "job_update" THEN AsList(global_connections) ELSE <<>>]

\* broadcast_job_update lines 49-62 and broadcast_job_log lines 100-112:
\* encode the message and snapshot the subscribers
BroadcastBegin(kind, j) ==
    /\ pub.pc \in {"idle", "returned"}
    /\ UNCHANGED <<jobVars, sb, fnVars>>
    /\ pub' = [pc |-> "send", kind |-> kind, job |-> j,
               job_clients |-> Snapshot(kind, j).job_clients,
               global_clients |-> Snapshot(kind, j).global_clients,
               disconnected |-> <<>>, sent |-> {}, received |-> {},
               then |-> [job_connections |-> job_connections,
                         global_connections |-> global_connections]]
    /\ UNCHANGED <<job_connections, global_connections, sock>>

\* send_text on a socket whose peer has closed raises
SendFails(s) == sock[s].st # "open"

\* send_text on a socket whose peer does not read stays pending
SendBlocks(s) == sock[s].st = "stalled"

\* one iteration of a send loop (lines 64-75, 114-118) on socket s reached
\* through the list conn_type; only broadcast_job_update notes the failure
AfterSend(p, conn_type, s) ==
    LET q == [p EXCEPT !.sent = @ \cup {s}] IN
    IF ~SendFails(s) THEN [q EXCEPT !.received = @ \cup {s}]
    ELSE IF p.kind = "job_update"
         THEN [q EXCEPT !.disconnected = Append(@, [conn_type |-> conn_type, jid |-> p.job, ws |-> s])]
         ELSE q

\* lines 64-68 and 114-118: the next job-specific subscriber
SendJobClient ==
    /\ pub.pc = "send" /\ pub.job_clients # <<>>
    /\ UNCHANGED <<jobVars, sb, fnVars>>
    /\ ~SendBlocks(Head(pub.job_clients))
    /\ pub' = [AfterSend(pub, "job", Head(pub.job_clients)) EXCEPT !.job_clients = Tail(@)]
    /\ UNCHANGED <<job_connections, global_connections, sock>>

\* lines 71-75: the next global subscriber
SendGlobalClient ==
    /\ pub.pc = "send" /\ pub.job_clients = <<>> /\ pub.global_clients # <<>>
    /\ UNCHANGED <<jobVars, sb, fnVars>>
    /\ ~SendBlocks(Head(pub.global_clients))
    /\ pub' = [AfterSend(pub, "global", Head(pub.global_clients)) EXCEPT !.global_clients = Tail(@)]
    /\ UNCHANGED <<job_connections, global_connections, sock>>

\* lines 78-82: drop the next subscriber whose send failed
BroadcastCleanup ==
    /\ pub.pc = "send" /\ pub.job_clients = <<>> /\ pub.global_clients = <<>>
    /\ UNCHANGED <<jobVars, sb, fnVars>>
    /\ pub.disconnected # <<>>
    /\ LET d == Head(pub.disconnected) IN
       IF d.conn_type = "job" THEN disconnect_job(d.ws, d.jid) ELSE disconnect_global(d.ws)
    /\ pub' = [pub EXCEPT !.disconnected = Tail(@)]
    /\ UNCHANGED sock

\* the broadcast returns to its caller
BroadcastReturn ==
    /\ pub.pc = "send" /\ pub.job_clients = <<>> /\ pub.global_clients = <<>>
    /\ UNCHANGED <<jobVars, sb, fnVars>>
    /\ pub.disconnected = <<>>
    /\ pub' = [pub EXCEPT !.pc = "returned"]
    /\ UNCHANGED <<job_connections, global_connections, sock>>

WsNext ==
    \/ \E s \in Sockets : connect_global(s)
    \/ \E s \in Sockets, j \in WsJobs : connect_job(s, j)
    \/ \E s \in Sockets : PeerCloses(s)
    \/ \E s \in Sockets : HandlerExit(s)
    \/ \E kind \in EventKinds, j \in WsJobs : BroadcastBegin(kind, j)
    \/ SendJobClient
    \/ SendGlobalClient
    \/ BroadcastCleanup
    \/ BroadcastReturn

(***************************************************************************)
(* services/evidence_service.py.  A command output is a sequence of lines; *)
(* a line holds the flag-shaped literals that occur in it, in order, and   *)
(* whether less than half of its characters are alphanumeric or blank.  A  *)
(* literal is its prefix and what the scoring reads of its inner text.     *)
(* Confidences are in tenths.                                              *)
(***************************************************************************)
MaxResults == 2     \* command results of one extract_flags call

FlagPrefixes == {"CTF", "flag", "Ctf"}
Literals == {[prefix |-> p, plain |-> b, len |-> l] :
                p \in FlagPrefixes, b \in BOOLEAN, l \in {"short", "mid", "long"}}
Line(lits, noisy) == [lits |-> lits, noisy |-> noisy]
EvTools == {"strings", "file"}

\* CTF{abcdefgh}, Ctf{abcdefgh} and flag{a b}
LitUpper == [prefix |-> "CTF", plain |-> TRUE, len |-> "mid"]
LitMixed == [prefix |-> "Ctf", plain |-> TRUE, len |-> "mid"]
LitLower == [prefix |-> "flag", plain |-> FALSE, len |-> "short"]

\* outputs with repeated, mixed and noisy occurrences
CoreStdouts ==
    {<<>>,
     <<Line(<<LitUpper>>, FALSE)>>,
     <<Line(<<LitUpper, LitUpper>>, FALSE)>>,
     <<Line(<<LitUpper>>, TRUE), Line(<<LitLower>>, FALSE)>>,
     <<Line(<<LitMixed, LitUpper>>, FALSE)>>,
     <<Line(<<LitLower>>, TRUE), Line(<<LitLower>>, FALSE)>>}

\* one-line outputs with every literal, clean and noisy
ShapeStdouts == {<<Line(<<l>>, n)>> : l \in Literals, n \in BOOLEAN}

\* run_playbook line 452: the results carry the step index as command_id
NumberResults(q) ==
    [i \in 1..Len(q) |-> [tool |-> q[i].tool, stdout |-> q[i].stdout, command_id |-> CommandId(i - 1)]]

EvInputs ==
    {NumberResults(q) : q \in SeqsUpTo([tool : EvTools, stdout : CoreStdouts], MaxResults)}
        \cup {NumberResults(<<r>>) : r \in [tool : EvTools, stdout : ShapeStdouts]}

\* custom patterns: none, the empty string, one with a syntax error
\* (re.error), one with a repetition count above the limit (OverflowError),
\* and ctf\{[^}]+\}, which is compiled with IGNORECASE
CustomPatterns == {None, "", "bad_syntax", "too_large", "ctf_anycase"}

\* re.compile of a custom pattern: a pattern is the set of prefixes it matches
CompileOutcome(custom) ==
    CASE custom = "bad_syntax" -> "re.error"
      [] custom = "too_large" -> "OverflowError"
      [] OTHER -> "compiled"

\* lines 14-19: the default patterns, case sensitive
default_flag_patterns == <<{"CTF"}, {"FLAG"}, {"flag"}, {"ctf"}>>

\* lines 31-40: the patterns applied; a custom pattern that raises re.error
\* is dropped
CompiledPatterns_KeepInvalid(custom) ==
    (IF custom \in {None, ""} THEN <<>> ELSE <<{"CTF", "ctf", "Ctf"}>>) \o default_flag_patterns
CompiledPatterns(custom) ==
    (IF custom \in {None, ""} \/ CompileOutcome(custom) # "compiled" THEN <<>>
     ELSE <<{"CTF", "ctf", "Ctf"}>>) \o default_flag_patterns

\* the literals of an output in text order
RECURSIVE LiteralsOf(_)
LiteralsOf(stdout) ==
    IF stdout = <<>> THEN <<>> ELSE Head(stdout).lits \o LiteralsOf(Tail(stdout))

\* line 48: pattern.findall(stdout)
FindAll(pattern, stdout) ==
    LET Matches(l) == l.prefix \in pattern IN SelectSeq(LiteralsOf(stdout), Matches)

\* lines 102-109: the penalty of the first line that contains the match
RECURSIVE FirstLineNoisy(_, _)
FirstLineNoisy(stdout, match) ==
    IF stdout = <<>> THEN FALSE
    ELSE IF \E i \in 1..Len(Head(stdout).lits) : Head(stdout).lits[i] = match
         THEN Head(stdout).noisy
         ELSE FirstLineNoisy(Tail(stdout), match)

NoisePenalty_Bonus(noisy) == IF noisy THEN 0 - 2 ELSE 0
NoisePenalty(noisy) == IF noisy THEN 2 ELSE 0

\* line 111: max(0.1, min(1.0, confidence))
Clamp_None(c) == c
Clamp(c) == IF c < 1 THEN 1 ELSE IF c > 10 THEN 10 ELSE c

\* _calculate_confidence lines 75-111
CalculateConfidence(match, tool, output) ==
    Clamp(5
          + (IF tool \in {"strings", "base64", "pdftotext"} THEN 2 ELSE 0)
          + (IF match.prefix \in {"CTF", "FLAG"} /\ match.plain THEN 2 ELSE 0)
          - (CASE match.len = "short" -> 2 [] match.len = "long" -> 3 [] OTHER -> 0)
          - NoisePenalty(FirstLineNoisy(output, match)))

\* line 51: match in seen_values
Seen_Never(seen, match) == FALSE
Seen(seen, match) == match \in seen

\* lines 50-68: the matches of one pattern in one result
RECURSIVE ScanMatches(_, _, _)
ScanMatches(ms, result, acc) ==
    IF ms = <<>> THEN acc
    ELSE IF Seen(acc.seen, Head(ms)) THEN ScanMatches(Tail(ms), result, acc)
    ELSE ScanMatches(Tail(ms), result,
            [seen |-> acc.seen \cup {Head(ms)},
             candidates |-> Append(acc.candidates,
                 [value |-> Head(ms),
                  confidence |-> CalculateConfidence(Head(ms), result.tool, result.stdout),
                  source |-> result.tool,
                  evidence_id |-> result.command_id])])

\* lines 47-48: the patterns over one result
RECURSIVE ScanPatterns(_, _, _)
ScanPatterns(ps, result, acc) ==
    IF ps = <<>> THEN acc
    ELSE ScanPatterns(Tail(ps), result, ScanMatches(FindAll(Head(ps), result.stdout), result, acc))

\* lines 42-45: the results in order
RECURSIVE ScanResults(_, _, _)
ScanResults(rs, ps, acc) ==
    IF rs = <<>> THEN acc
    ELSE ScanResults(Tail(rs), ps, ScanPatterns(ps, Head(rs), acc))

\* line 71: the stable sort by confidence, highest first
RECURSIVE SortByConfidence(_, _)
SortByConfidence(cands, c) ==
    LET Is(x) == x.confidence = c IN
    IF cands = <<>> \/ \A i \in 1..Len(cands) : cands[i].confidence > c
    THEN <<>>
    ELSE SelectSeq(cands, Is) \o
         SortByConfidence(SelectSeq(cands, LAMBDA x : x.confidence # c), c - 1)

MaxConfidence(cands) ==
    IF cands = <<>> THEN 0
    ELSE CHOOSE c \in {cands[i].confidence : i \in 1..Len(cands)} :
            \A i \in 1..Len(cands) : cands[i].confidence <= c

\* extract_flags lines 21-73: what the call returns, or that it raised
extract_flags(command_results, custom_pattern) ==
    IF custom_pattern \notin {None, ""} /\ CompileOutcome(custom_pattern) = "OverflowError"
    THEN [end |-> "raised", candidates |-> <<>>]
    ELSE LET found == ScanResults(command_results, CompiledPatterns(custom_pattern),
                                  [seen |-> {}, candidates |-> <<>>]).candidates
         IN [end |-> "returned", candidates |-> SortByConfidence(found, MaxConfidence(found))]

EvIdle == [pc |-> "idle", command_results |-> <<>>, custom_pattern |-> None,
           end |-> None, candidates |-> <<>>]

\* a call of extract_flags with its inputs, before it runs
EvCalls ==
    {[pc |-> "call", command_results |-> rs, custom_pattern |-> c,
      end |-> None, candidates |-> <<>>] : rs \in EvInputs, c \in CustomPatterns}

ExtractFlags ==
    /\ ev.pc = "call"
    /\ ev' = [ev EXCEPT !.pc = "done",
                        !.end = extract_flags(ev.command_results, ev.custom_pattern).end,
                        !.candidates = extract_flags(ev.command_results, ev.custom_pattern).candidates]
    /\ UNCHANGED <<jobVars, sb, wsVars, pb, tc, wv, hs, au, sf, ct, lk, rl>>

\* no call of the playbook functions is in progress
PbIdle == [op |-> None, pc |-> "idle", files |-> <<>>, args |-> <<>>, listing |-> <<>>,
           selected |-> None, resolved |-> <<>>]

\* the tool availability cache before any request (sandbox_service.py 87-88)
NoTimestamp == -1   \* _cache_timestamp = None
TcIdle == [now |-> 0, cls |-> [tool_cache |-> "empty", cache_timestamp |-> NoTimestamp],
           probes |-> 0, log |-> <<>>]

\* no report is being validated
WvIdle == [pc |-> "idle", writeup |-> <<>>, command_ids |-> {}, body |-> <<>>, warning |-> {}]

\* no history query is in progress
HsIdle == [pc |-> "idle", ledger |-> <<>>, category |-> None, file_types |-> {}, limit |-> 0,
           shortlist |-> <<>>]

\* no session exists and no request was served; commits is set per specification
AuIdle == [now |-> 0, commits |-> TRUE, sessions |-> {}, issued |-> 0, logged_out |-> {},
           served |-> 0, last |-> [op |-> None, sid |-> 0, code |-> 0, performed |-> FALSE]]

\* no file name is being sanitized
SfIdle == [pc |-> "idle", name |-> [absolute |-> FALSE, lead |-> 0, stem |-> 0, suffix |-> 0],
           end |-> None, safe_name |-> [stem |-> 0, suffix |-> 0]]

\* no container of the job is alive; neither the playbook nor a terminal command has run
CtIdle == [active |-> {}, playbook |-> "waiting", steps_done |-> 0, terminal |-> "idle",
           terminals_done |-> 0, launches |-> <<>>]

\* ConnectionManager.__init__ (websocket.py 11-16): no key, no subscriber, the
\* lock free; no connection opened, no broadcast called
NumSubscribers == 2     \* connections opened over an execution of the lock model
LkSockets == 1..NumSubscribers
Publisher == 0          \* the coroutine that calls a broadcast; a handler has its socket's number
LkIdle == [locked |-> FALSE, holder |-> Publisher,
           job_connections |-> <<>>, global_connections |-> {},
           h |-> [s \in LkSockets |-> [pc |-> "new", at |-> "out", endpoint |-> None, st |-> "new"]],
           pub |-> [pc |-> "idle", at |-> "out", kind |-> None, job |-> None,
                    job_clients |-> <<>>, global_clients |-> <<>>, disconnected |-> <<>>]]

\* RateLimitMiddleware.__init__ (rate_limit.py 12-15): no timestamp is kept
\* for any key (a defaultdict) and no request has arrived
MaxRateReqs == 7        \* requests that arrive over an execution
RlIdle == [now |-> 0, requests |-> <<>>, fwd |-> <<>>, arrived |-> 0, waiting |-> <<>>,
           last |-> [ip |-> <<>>, path |-> <<>>, code |-> 0]]

EvidenceNext == ExtractFlags

EvidenceInit == JobInit /\ sb = SbIdle /\ WsInit /\ ev \in EvCalls /\ pb = PbIdle /\ tc = TcIdle /\ wv = WvIdle /\ hs = HsIdle /\ au = AuIdle /\ sf = SfIdle /\ ct = CtIdle /\ lk = LkIdle /\ rl = RlIdle

EvidenceSpec == EvidenceInit /\ [][EvidenceNext]_vars

\* what extract_flags returns for the outputs of a run: nothing, or the one
\* value of an output that holds it twice
RunCandidates ==
    {extract_flags(NumberResults(<<[tool |-> "strings", stdout |-> o]>>), None).candidates :
        o \in {<<>>, <<Line(<<LitUpper, LitUpper>>, FALSE)>>}}

\* a FlagCandidate row per candidate, tasks.py lines 134-143
RECURSIVE FlagRows(_, _)
FlagRows(j, cands) ==
    IF cands = <<>> THEN <<>>
    ELSE <<[job_id |-> j, value |-> Head(cands).value]>> \o FlagRows(j, Tail(cands))

\* tasks.py lines 119-150: commit, "Executed n commands", extract the
\* candidates and insert a row for each, commit, "Found n flag candidates"
\* tasks.py lines 104-119: the loop has stored a Command for every result
AllSaved_Early(w) == TRUE
AllSaved(w) == wk[w].saved = Len(wk[w].results)

SaveDone(w, cands) ==
    /\ wk[w].pc = "save"
    /\ UNCHANGED <<sb, wsVars, fnVars>>
    /\ AllSaved(w)
    /\ flag_candidates' = flag_candidates \o FlagRows(wk[w].job, cands)
    /\ timeline' = [timeline EXCEPT ![wk[w].job] =
                       Append(Append(@, "Executed commands"), "Found flag candidates")]
    /\ wk' = [wk EXCEPT ![w].pc = "writeup"]
    /\ UNCHANGED <<status, error_message, commands_executed, commands, queue, req>>

(***************************************************************************)
(* tasks.py _select_playbook and _load_playbook; the argument resolution   *)
(* of run_playbook.  A file name is its stem and its suffix as written.    *)
(***************************************************************************)
MaxFiles == 2       \* input files of a job, entries of a working directory
MaxStepArgs == 3    \* arguments of a playbook step

\* str.lower on the texts the model draws
Lower(t) ==
    CASE t = ".PCAPNG" -> ".pcapng"
      [] t = ".PNG" -> ".png"
      [] t = "Flag_1" -> "flag_1"
      [] OTHER -> t

FileStems == {"capture", "Flag_1"}
FileSuffixes == {".pcap", ".PCAPNG", ".pdf", ".elf", ".pyc", ".PNG", ".wav", ".zip", ".img",
                 ".pem", ".html", ".txt", ".encrypted", ""}
FileNames == [stem : FileStems, suffix : FileSuffixes]

\* line 218: 'flag', 'cipher', 'secret' or 'encrypted' occurs in the lowered name
HasKeyword(f) == Lower(f.stem) = "flag_1" \/ Lower(f.suffix) = ".encrypted"

\* the first step of each playbook of _load_playbook (lines 226-488); the
\* steps after the first are left out
playbooks ==
    [n \in {"default", "pwn", "reversing", "crypto", "forensics", "memory_forensics", "stego",
            "audio_stego", "network", "web", "pdf"} |->
        [name |-> n, steps |-> <<[tool |-> "file", arguments |-> <<"{files}">>]>>]]

\* _load_playbook line 490: playbooks.get(name, playbooks["default"])
load_playbook(name) == IF name \in DOMAIN playbooks THEN playbooks[name] ELSE playbooks["default"]

\* _select_playbook lines 191-221, with the document check moved to the top
select_playbook_DocumentFirst(files) ==
    LET extensions == {Lower(files[i].suffix) : i \in 1..Len(files)} IN
    IF ".pdf" \in extensions THEN load_playbook("pdf")
    ELSE IF {".pcap", ".pcapng"} \cap extensions # {} THEN load_playbook("network")
    ELSE load_playbook("default")

\* _select_playbook lines 191-221
select_playbook(files) ==
    LET extensions == {Lower(files[i].suffix) : i \in 1..Len(files)}
        HasAny(set) == set \cap extensions # {}
    IN
    IF HasAny({".pcap", ".pcapng"}) THEN load_playbook("network")
    ELSE IF HasAny({".pdf"}) THEN load_playbook("pdf")
    ELSE IF HasAny({".elf", ".exe", ".bin", ".so", ".dll"}) THEN load_playbook("pwn")
    ELSE IF HasAny({".pyc", ".class"}) THEN load_playbook("reversing")
    ELSE IF HasAny({".png", ".jpg", ".jpeg", ".gif", ".bmp"}) THEN load_playbook("stego")
    ELSE IF HasAny({".wav", ".mp3", ".flac"}) THEN load_playbook("audio_stego")
    ELSE IF HasAny({".zip", ".tar", ".gz", ".7z", ".rar"}) THEN load_playbook("forensics")
    ELSE IF HasAny({".img", ".raw", ".dd", ".mem", ".vmem"}) THEN load_playbook("memory_forensics")
    ELSE IF HasAny({".enc", ".aes", ".rsa", ".pem", ".key"}) THEN load_playbook("crypto")
    ELSE IF HasAny({".html", ".php", ".js"}) THEN load_playbook("web")
    ELSE IF \E i \in 1..Len(files) : HasKeyword(files[i]) THEN load_playbook("crypto")
    ELSE load_playbook("default")

\* the arguments of a step: "{files}", "{target}", "{}", "-n", "{files" and
\* "x{files}", as sequences of characters
FilesToken == <<"{", "f", "i", "l", "e", "s", "}">>
StepArgInputs ==
    {FilesToken, <<"{", "t", "}">>, <<"{", "}">>, <<"-", "n">>,
     <<"{", "f", "i", "l", "e", "s">>, <<"x", "{", "f", "i", "l", "e", "s", "}">>}

\* the entries of the working directory in the order iterdir yields them
DirEntries == [name : {<<"a", ".", "b">>, <<"s", "u", "b">>}, is_file : BOOLEAN]
DirListings ==
    {l \in SeqsUpTo(DirEntries, MaxFiles) : \A a, b \in 1..Len(l) : l[a].name = l[b].name => a = b}

\* sandbox_service.py lines 444-446: the names of the regular files
IsRegular_Any(e) == TRUE
IsRegular(e) == e.is_file

RECURSIVE RegularFileNames(_)
RegularFileNames(listing) ==
    IF listing = <<>> THEN <<>>
    ELSE (IF IsRegular(Head(listing)) THEN <<Head(listing).name>> ELSE <<>>)
            \o RegularFileNames(Tail(listing))

\* line 447: arg.startswith("{") and arg.endswith("}")
IsPlaceholder(arg) == arg # <<>> /\ Head(arg) = "{" /\ arg[Len(arg)] = "}"

\* sandbox_service.py lines 440-450: the arguments of a step, resolved
RECURSIVE ResolveArgs(_, _)
ResolveArgs(args, listing) ==
    IF args = <<>> THEN <<>>
    ELSE (IF Head(args) = FilesToken THEN RegularFileNames(listing)
          ELSE IF IsPlaceholder(Head(args)) THEN <<>>
          ELSE <<Head(args)>>) \o ResolveArgs(Tail(args), listing)

\* a call with its inputs, before it runs
PbCalls ==
    {[op |-> "select", pc |-> "call", files |-> fs, args |-> <<>>, listing |-> <<>>,
      selected |-> None, resolved |-> <<>>] : fs \in SeqsUpTo(FileNames, MaxFiles)}
    \cup {[op |-> "resolve", pc |-> "call", files |-> <<>>, args |-> as, listing |-> l,
           selected |-> None, resolved |-> <<>>] :
             as \in SeqsUpTo(StepArgInputs, MaxStepArgs), l \in DirListings}

\* tasks.py line 83: playbook = _select_playbook(job.input_files)
SelectPlaybookCall ==
    /\ pb.op = "select" /\ pb.pc = "call"
    /\ pb' = [pb EXCEPT !.pc = "done", !.selected = select_playbook(pb.files).name]
    /\ UNCHANGED <<jobVars, sb, wsVars, ev, tc, wv, hs, au, sf, ct, lk, rl>>

\* sandbox_service.py lines 435-450: the arguments of one step are resolved
ResolveStepArguments ==
    /\ pb.op = "resolve" /\ pb.pc = "call"
    /\ pb' = [pb EXCEPT !.pc = "done", !.resolved = ResolveArgs(pb.args, pb.listing)]
    /\ UNCHANGED <<jobVars, sb, wsVars, ev, tc, wv, hs, au, sf, ct, lk, rl>>

PlaybookNext ==
    \/ SelectPlaybookCall
    \/ ResolveStepArguments

PlaybookInit == JobInit /\ sb = SbIdle /\ WsInit /\ ev = EvIdle /\ pb \in PbCalls /\ tc = TcIdle /\ wv = WvIdle /\ hs = HsIdle /\ au = AuIdle /\ sf = SfIdle /\ ct = CtIdle /\ lk = LkIdle /\ rl = RlIdle

PlaybookSpec == PlaybookInit /\ [][PlaybookNext]_vars

(***************************************************************************)
(* sandbox_service.py check_tool_availability and its route in             *)
(* routers/system.py.  Time is counted in minutes.                         *)
(***************************************************************************)
MaxClock == 6       \* minutes the clock runs
NumToolReqs == 3    \* requests to GET /sandbox/tools

cache_age == 5      \* line 101: 300 seconds

\* SandboxService(): an instance with no attribute of its own
NewInstance == [own |-> FALSE, tool_cache |-> "empty", cache_timestamp |-> NoTimestamp]

\* self._tool_cache, self._cache_timestamp: the instance's own attribute if
\* one was assigned, the attribute of the class otherwise
ToolCacheOf(inst, cls) == IF inst.own THEN inst.tool_cache ELSE cls.tool_cache
CacheTimestampOf(inst, cls) == IF inst.own THEN inst.cache_timestamp ELSE cls.cache_timestamp

\* lines 101-105: the condition under which the cached result is returned
CacheFresh(inst, cls, force_refresh, now) ==
    /\ ~force_refresh
    /\ CacheTimestampOf(inst, cls) # NoTimestamp
    /\ now - CacheTimestampOf(inst, cls) < cache_age
    /\ ToolCacheOf(inst, cls) # "empty"

\* check_tool_availability lines 98-210 on instance inst: the instance
\* afterwards, whether the sandbox was probed, and the "cached" of the response.
\* Lines 192-193 assign through self, which sets attributes of the instance
\* and leaves those of the class as they were.
check_tool_availability(inst, cls, force_refresh, now) ==
    IF CacheFresh(inst, cls, force_refresh, now)
    THEN [inst |-> inst, probed |-> FALSE, cached |-> TRUE]
    ELSE [inst |-> [own |-> TRUE, tool_cache |-> "status", cache_timestamp |-> now],
          probed |-> TRUE, cached |-> FALSE]

\* time passes
Tick ==
    /\ tc.now < MaxClock
    /\ tc' = [tc EXCEPT !.now = @ + 1]
    /\ UNCHANGED <<jobVars, sb, wsVars, ev, pb, wv, hs, au, sf, ct, lk, rl>>

\* system.py lines 465-476: the handler makes a SandboxService of its own and
\* asks it; the instance is dropped when the handler returns.
ToolsRequest(refresh) ==
    /\ Len(tc.log) < NumToolReqs
    /\ LET r == check_tool_availability(NewInstance, tc.cls, refresh, tc.now) IN
       tc' = [tc EXCEPT !.probes = @ + (IF r.probed THEN 1 ELSE 0),
                        !.log = Append(@, [at |-> tc.now, refresh |-> refresh,
                                           probed |-> r.probed, cached |-> r.cached])]
    /\ UNCHANGED <<jobVars, sb, wsVars, ev, pb, wv, hs, au, sf, ct, lk, rl>>

ToolCacheNext ==
    \/ Tick
    \/ \E refresh \in BOOLEAN : ToolsRequest(refresh)

(***************************************************************************)
(* writeup_service.py _validate_writeup, over the command ids of           *)
(* evidence_service.py build_evidence_pack.  Texts are sequences of        *)
(* characters.                                                             *)
(***************************************************************************)
MaxPieces == 4      \* pieces a report text is put together from

DigitChars == <<"0", "1", "2", "3", "4", "5", "6", "7", "8", "9">>
IsDigit(c) == \E d \in 1..Len(DigitChars) : DigitChars[d] = c

\* sandbox_service.py line 452: f"cmd_{n:03d}", for n below 1000
CommandIdText(n) ==
    <<"c", "m", "d", "_", DigitChars[((n \div 100) % 10) + 1],
      DigitChars[((n \div 10) % 10) + 1], DigitChars[(n % 10) + 1]>>

\* build_evidence_pack line 182: the ids of the results of a run of n steps
PackCommandIds(n) == {CommandIdText(k) : k \in 0..(n - 1)}

\* the pieces of the report texts: "cmd_00", "cmd_", "0", "1", "2", " ", "x"
ReportPieces ==
    {<<"c", "m", "d", "_", "0", "0">>, <<"c", "m", "d", "_">>, <<"0">>, <<"1">>, <<"2">>,
     <<" ">>, <<"x">>}

RECURSIVE Concat(_)
Concat(pieces) == IF pieces = <<>> THEN <<>> ELSE Head(pieces) \o Concat(Tail(pieces))

ReportTexts == {Concat(ps) : ps \in SeqsUpTo(ReportPieces, MaxPieces)}

\* the text starts with "cmd_" at position i
CmdAt(text, i) == i + 3 <= Len(text) /\ SubSeq(text, i, i + 3) = <<"c", "m", "d", "_">>

\* the end of the run of digits that starts at position i (i - 1 when there is none)
RECURSIVE DigitsEnd(_, _)
DigitsEnd(text, i) ==
    IF i <= Len(text) /\ IsDigit(text[i]) THEN DigitsEnd(text, i + 1) ELSE i - 1

\* line 157: set(re.findall(r'cmd_\d+', writeup)), scanning from position i
RECURSIVE FindCmdRefs(_, _)
FindCmdRefs(text, i) ==
    IF i > Len(text) THEN {}
    ELSE IF CmdAt(text, i) /\ DigitsEnd(text, i + 4) >= i + 4
         THEN {SubSeq(text, i, DigitsEnd(text, i + 4))}
                 \cup FindCmdRefs(text, DigitsEnd(text, i + 4) + 1)
         ELSE FindCmdRefs(text, i + 1)

\* line 160: unknown_ids = referenced_ids - known_ids
UnknownIds_None(referenced, known) == {}
UnknownIds(referenced, known) == referenced \ known

\* _validate_writeup lines 152-166: the report as written, and the ids named
\* in the warning appended to it (none: nothing is appended)
validate_writeup(writeup, command_ids) ==
    [body |-> writeup, warning |-> UnknownIds(FindCmdRefs(writeup, 1), command_ids)]

WvCalls ==
    {[pc |-> "call", writeup |-> t, command_ids |-> PackCommandIds(n), body |-> <<>>,
      warning |-> {}] : t \in ReportTexts, n \in 0..NumSteps}

\* generate_writeup lines 97-102: the report is validated, then saved
ValidateWriteup ==
    /\ wv.pc = "call"
    /\ LET out == validate_writeup(wv.writeup, wv.command_ids) IN
       wv' = [wv EXCEPT !.pc = "done", !.body = out.body, !.warning = out.warning]
    /\ UNCHANGED <<jobVars, sb, wsVars, ev, pb, tc, hs, au, sf, ct, lk, rl>>

WriteupNext == ValidateWriteup

WriteupInit == JobInit /\ sb = SbIdle /\ WsInit /\ ev = EvIdle /\ pb = PbIdle /\ tc = TcIdle /\ wv \in WvCalls /\ hs = HsIdle /\ au = AuIdle /\ sf = SfIdle /\ ct = CtIdle /\ lk = LkIdle /\ rl = RlIdle

WriteupSpec == WriteupInit /\ [][WriteupNext]_vars

(***************************************************************************)
(* history_service.py get_similar_solves.  The ledger is the table         *)
(* global_solve_history in the order of created_at, oldest first; a record *)
(* is named by its position in the ledger.                                 *)
(***************************************************************************)
MaxLedger == 3      \* records of the ledger
MaxLimit == 1       \* the limit of a query

Categories == {"web", "misc"}
FileTypes == {"png", "zip"}
SolveRecords == [category : Categories, file_types : SUBSET FileTypes]

\* lines 239-245: the records of the category, newest first, at most n of them
RECURSIVE NewestOfCategory(_, _, _, _)
NewestOfCategory(ledger, category, i, n) ==
    IF i = 0 \/ n = 0 THEN <<>>
    ELSE IF ledger[i].category = category
         THEN <<i>> \o NewestOfCategory(ledger, category, i - 1, n - 1)
         ELSE NewestOfCategory(ledger, category, i - 1, n)

\* lines 248-251: score_match
score_match(record, file_types) == Cardinality(record.file_types \cap file_types)

\* line 254: candidates.sort(key=score_match, reverse=True); the sort is
\* stable, records of equal score keep the order they had
RECURSIVE SortByScore(_, _, _)
SortByScore(ids, ledger, file_types) ==
    IF ids = <<>> THEN <<>>
    ELSE LET Score(k) == score_match(ledger[ids[k]], file_types)
             best == CHOOSE k \in 1..Len(ids) :
                        /\ \A h \in 1..Len(ids) : Score(h) <= Score(k)
                        /\ \A h \in 1..(k - 1) : Score(h) < Score(k)
         IN <<ids[best]>> \o SortByScore(SubSeq(ids, 1, best - 1) \o SubSeq(ids, best + 1, Len(ids)),
                                         ledger, file_types)

FirstN(s, n) == SubSeq(s, 1, IF Len(s) < n THEN Len(s) ELSE n)

\* get_similar_solves lines 229-256
get_similar_solves(ledger, category, file_types, limit) ==
    FirstN(SortByScore(NewestOfCategory(ledger, category, Len(ledger), limit * 2), ledger, file_types),
           limit)

HsCalls ==
    {[pc |-> "call", ledger |-> l, category |-> c, file_types |-> ft, limit |-> n,
      shortlist |-> <<>>] :
        l \in SeqsUpTo(SolveRecords, MaxLedger), c \in Categories, ft \in SUBSET FileTypes,
        n \in 1..MaxLimit}

\* get_recommended_tools line 266: the shortlist of a query is computed
SimilarSolves ==
    /\ hs.pc = "call"
    /\ hs' = [hs EXCEPT !.pc = "done",
                        !.shortlist = get_similar_solves(hs.ledger, hs.category, hs.file_types,
                                                         hs.limit)]
    /\ UNCHANGED <<jobVars, sb, wsVars, ev, pb, tc, wv, au, sf, ct, lk, rl>>

HistoryNext == SimilarSolves

HistoryInit == JobInit /\ sb = SbIdle /\ WsInit /\ ev = EvIdle /\ pb = PbIdle /\ tc = TcIdle /\ wv = WvIdle /\ hs \in HsCalls /\ au = AuIdle /\ sf = SfIdle /\ ct = CtIdle /\ lk = LkIdle /\ rl = RlIdle

HistorySpec == HistoryInit /\ [][HistoryNext]_vars

(***************************************************************************)
(* routers/auth.py login, logout, get_current_session, as used by the job  *)
(* endpoints of routers/jobs.py.  A session id is a number, 0 standing for *)
(* a request without session cookie.  database.py is not part of the       *)
(* sources: whether get_db commits the writes of a request when it ends is *)
(* left open (au.commits), the same for every request of an execution.     *)
(***************************************************************************)
MaxAuthClock == 3   \* the clock of the sessions runs this far
MaxSessions == 2    \* logins that succeed
MaxAuthReqs == 3    \* requests served

session_timeout == 2    \* config.py line 38, in ticks of the clock

\* the cookies a client can present: none (0), the id of a session that was
\* issued, or an id that is never issued (login line 124 draws 32 random bytes)
SidInputs == {0, MaxSessions + 1} \cup (1..au.issued)

\* the row of a session id, as a set (empty: no such row)
SessionRows(sessions, sid) == {s \in sessions : s.id = sid}

\* get_current_session line 39, negated: the session has not expired
NotExpired_Always(s, now) == TRUE
NotExpired(s, now) == ~(s.expires_at < now)

\* delete(Session).where(Session.id == sid)
DeleteSession_Keep(sessions, sid) == sessions
DeleteSession(sessions, sid) == {s \in sessions : s.id # sid}

\* the table after a request that wrote it
Committed(before, after) == IF au.commits THEN after ELSE before

Respond(op, sid, code, performed) == [op |-> op, sid |-> sid, code |-> code, performed |-> performed]

AuthTick ==
    /\ au.now < MaxAuthClock
    /\ au' = [au EXCEPT !.now = @ + 1]
    /\ UNCHANGED <<jobVars, sb, wsVars, ev, pb, tc, wv, hs, sf, ct, lk, rl>>

\* login lines 113-149: a new session with a fresh id
Login(password_ok) ==
    /\ au.served < MaxAuthReqs
    /\ password_ok => au.issued < MaxSessions
    /\ IF password_ok
       THEN au' = [au EXCEPT !.served = @ + 1, !.issued = @ + 1,
                             !.sessions = Committed(@, @ \cup {[id |-> au.issued + 1,
                                                               expires_at |-> au.now + session_timeout]}),
                             !.last = Respond("login", au.issued + 1, 200, TRUE)]
       ELSE au' = [au EXCEPT !.served = @ + 1, !.last = Respond("login", 0, 401, FALSE)]
    /\ UNCHANGED <<jobVars, sb, wsVars, ev, pb, tc, wv, hs, sf, ct, lk, rl>>

\* optional_session lines 46-70: the session of the cookie when it is stored
\* and not expired
OptionalSession(sid) == {s \in SessionRows(au.sessions, sid) : sid # 0 /\ s.expires_at >= au.now}

\* logout lines 152-165
Logout(sid) ==
    /\ au.served < MaxAuthReqs
    /\ au' = [au EXCEPT !.served = @ + 1,
                        !.sessions = IF OptionalSession(sid) # {}
                                     THEN Committed(@, DeleteSession(@, sid)) ELSE @,
                        !.logged_out = IF sid # 0 THEN @ \cup {sid} ELSE @,
                        !.last = Respond("logout", sid, 200, TRUE)]
    /\ UNCHANGED <<jobVars, sb, wsVars, ev, pb, tc, wv, hs, sf, ct, lk, rl>>

\* get_current_session lines 23-43, the dependency of every job endpoint
\* (routers/jobs.py): 401 before the endpoint's body runs unless the cookie
\* names a stored session that has not expired.  The DELETE of an expired
\* session is followed by the exception, so it may or may not be committed.
JobRequest(sid, delete_kept) ==
    /\ au.served < MaxAuthReqs
    /\ LET rows == SessionRows(au.sessions, sid) IN
       IF sid = 0 \/ rows = {}
       THEN au' = [au EXCEPT !.served = @ + 1, !.last = Respond("job", sid, 401, FALSE)]
       ELSE IF \E s \in rows : ~NotExpired(s, au.now)
       THEN au' = [au EXCEPT !.served = @ + 1, !.last = Respond("job", sid, 401, FALSE),
                             !.sessions = IF delete_kept THEN Committed(@, DeleteSession(@, sid))
                                          ELSE @]
       ELSE au' = [au EXCEPT !.served = @ + 1, !.last = Respond("job", sid, 200, TRUE)]
    /\ UNCHANGED <<jobVars, sb, wsVars, ev, pb, tc, wv, hs, sf, ct, lk, rl>>

AuthNext ==
    \/ AuthTick
    \/ \E ok \in BOOLEAN : Login(ok)
    \/ \E sid \in SidInputs : Logout(sid)
    \/ \E sid \in SidInputs, kept \in BOOLEAN : JobRequest(sid, kept)

AuthInit == JobInit /\ sb = SbIdle /\ WsInit /\ ev = EvIdle /\ pb = PbIdle /\ tc = TcIdle /\ wv = WvIdle /\ hs = HsIdle /\ au \in {[AuIdle EXCEPT !.commits = c] : c \in BOOLEAN} /\ sf = SfIdle /\ ct = CtIdle /\ lk = LkIdle /\ rl = RlIdle

AuthSpec == AuthInit /\ [][AuthNext]_vars

(***************************************************************************)
(* file_service.py sanitize_filename.  A file name is given by its shape:  *)
(* whether it starts with "/", its leading dots, the length of its stem    *)
(* and the length of its suffix (the last dot and what follows it; 0 when  *)
(* the name has no suffix).                                                *)
(***************************************************************************)
MaxStemLen == 201   \* characters of a stem
MaxSuffixLen == 11  \* characters of a suffix, the dot included

NameLimit == 200    \* line 76: len(safe_name) > 200
StemLimit == 190    \* line 77: Path(safe_name).stem[:190]

NameShapes ==
    [absolute : BOOLEAN, lead : 0..1, stem : 1..MaxStemLen, suffix : {0} \cup (2..MaxSuffixLen)]

NameLen(n) == n.stem + n.suffix

Min(a, b) == IF a < b THEN a ELSE b

\* lines 76-79: the name cut to length; the suffix is kept whole
LimitLength(n) ==
    IF NameLen(n) > NameLimit THEN [stem |-> Min(n.stem, StemLimit), suffix |-> n.suffix]
    ELSE [stem |-> n.stem, suffix |-> n.suffix]

\* sanitize_filename lines 59-81: a name matching a dangerous pattern raises
\* ValueError; the character replacement of line 70 keeps the length, lstrip
\* of line 73 drops the leading dots
sanitize_filename(n) ==
    IF n.absolute THEN [end |-> "raised", safe_name |-> [stem |-> 0, suffix |-> 0]]
    ELSE [end |-> "returned", safe_name |-> LimitLength(n)]

SfCalls == {[pc |-> "call", name |-> n, end |-> None, safe_name |-> [stem |-> 0, suffix |-> 0]] :
              n \in NameShapes}

\* save_files line 95: the name of an uploaded file is sanitized
SanitizeFilename ==
    /\ sf.pc = "call"
    /\ LET out == sanitize_filename(sf.name) IN
       sf' = [sf EXCEPT !.pc = "done", !.end = out.end, !.safe_name = out.safe_name]
    /\ UNCHANGED <<jobVars, sb, wsVars, ev, pb, tc, wv, hs, au, ct, lk, rl>>

FileNameNext == SanitizeFilename

FileNameInit == JobInit /\ sb = SbIdle /\ WsInit /\ ev = EvIdle /\ pb = PbIdle /\ tc = TcIdle /\ wv = WvIdle /\ hs = HsIdle /\ au = AuIdle /\ sf \in SfCalls /\ ct = CtIdle /\ lk = LkIdle /\ rl = RlIdle

FileNameSpec == FileNameInit /\ [][FileNameNext]_vars

(***************************************************************************)
(* The sandbox containers of one job.  run_playbook (sandbox_service.py    *)
(* 426-468) runs in the Celery worker, execute_terminal_command            *)
(* (routers/jobs.py 304-366) in the API process; both end in run_command,  *)
(* whose containers.run call returns when the container has exited.        *)
(***************************************************************************)
MaxTerminalCmds == 3    \* terminal commands sent for the job

\* run_playbook lines 433-459: the next step's container is launched; the
\* loop is at no other step meanwhile
PlaybookStepStart ==
    /\ ct.playbook \in {"waiting", "between"}
    /\ ct.steps_done < NumSteps
    /\ ct' = [ct EXCEPT !.playbook = "in_step", !.active = @ \cup {"playbook"},
                        !.launches = Append(@, "playbook")]
    /\ UNCHANGED <<jobVars, sb, wsVars, ev, pb, tc, wv, hs, au, sf, lk, rl>>

\* run_playbook lines 461-466: the container has exited, the result is appended
PlaybookStepEnd ==
    /\ ct.playbook = "in_step"
    /\ ct' = [ct EXCEPT !.playbook = IF ct.steps_done + 1 = NumSteps THEN "returned" ELSE "between",
                        !.steps_done = @ + 1, !.active = @ \ {"playbook"}]
    /\ UNCHANGED <<jobVars, sb, wsVars, ev, pb, tc, wv, hs, au, sf, lk, rl>>

\* execute_terminal_command lines 312-347: the job must exist and have files;
\* its status is not read.  A tool outside the allowlist is refused by
\* run_command before any container is launched.
TerminalStart(allowed) ==
    /\ ct.terminal = "idle"
    /\ ct.terminals_done < MaxTerminalCmds
    /\ IF allowed
       THEN ct' = [ct EXCEPT !.terminal = "in_command", !.active = @ \cup {"terminal"},
                             !.launches = Append(@, "terminal")]
       ELSE ct' = [ct EXCEPT !.terminals_done = @ + 1]
    /\ UNCHANGED <<jobVars, sb, wsVars, ev, pb, tc, wv, hs, au, sf, lk, rl>>

\* execute_terminal_command lines 349-355: the container has exited
TerminalEnd ==
    /\ ct.terminal = "in_command"
    /\ ct' = [ct EXCEPT !.terminal = "idle", !.terminals_done = @ + 1,
                        !.active = @ \ {"terminal"}]
    /\ UNCHANGED <<jobVars, sb, wsVars, ev, pb, tc, wv, hs, au, sf, lk, rl>>

ContainerNext ==
    \/ PlaybookStepStart
    \/ PlaybookStepEnd
    \/ \E allowed \in BOOLEAN : TerminalStart(allowed)
    \/ TerminalEnd

(***************************************************************************)
(* websocket.py ConnectionManager, statement by statement inside the       *)
(* `async with self._lock` sections.  job_connections is a dictionary: a   *)
(* job id is a key of it or not.  A section holds no await, and acquiring  *)
(* a free asyncio.Lock does not suspend, so while the lock is held only    *)
(* its holder runs; other coroutines run when no section is in progress.   *)
(***************************************************************************)
Coroutines == {Publisher} \cup LkSockets

\* where coroutine c stands with respect to its lock section:
\* out, acquire, body, add, del, release
At(c) == IF c = Publisher THEN lk.pub.at ELSE lk.h[c].at
WithAt(l, c, a) == IF c = Publisher THEN [l EXCEPT !.pub.at = a] ELSE [l EXCEPT !.h[c].at = a]

HoldsLock(c) == lk.locked /\ lk.holder = c

\* the event loop can run a step of c outside a section
Runs(c) == ~lk.locked /\ At(c) = "out"

\* __aenter__ and __aexit__ of `async with self._lock`
AcquireLock(l, c) == [l EXCEPT !.locked = TRUE, !.holder = c]
ReleaseLock_Keep(l) == l
ReleaseLock(l) == [l EXCEPT !.locked = FALSE, !.holder = Publisher]

\* the method whose section coroutine c is in, with its arguments
Section(c) ==
    IF c = Publisher
    THEN IF lk.pub.pc = "snapshot"
         THEN [op |-> "snapshot", ws |-> 0, jid |-> lk.pub.job]
         ELSE LET d == Head(lk.pub.disconnected) IN
              [op |-> IF d.conn_type = "job" THEN "disconnect_job" ELSE "disconnect_global",
               ws |-> d.ws, jid |-> d.jid]
    ELSE LET e == lk.h[c].endpoint IN
         [op |-> IF lk.h[c].pc = "connect"
                 THEN (IF e = "global" THEN "connect_global" ELSE "connect_job")
                 ELSE (IF e = "global" THEN "disconnect_global" ELSE "disconnect_job"),
          ws |-> c, jid |-> e]

InSection(c, op, at) == HoldsLock(c) /\ At(c) = at /\ Section(c).op = op

LkFrame == UNCHANGED <<jobVars, sb, wsVars, ev, pb, tc, wv, hs, au, sf, ct, rl>>

\* ws.py lines 24 and 56, websocket.py lines 20 and 27: the handler of a new
\* connection accepts it and goes on to the lock
Accept(s, e) ==
    /\ lk.h[s].pc = "new" /\ Runs(s)
    /\ \A q \in LkSockets : q < s => lk.h[q].pc # "new"
    /\ lk' = [lk EXCEPT !.h[s] = [pc |-> "connect", at |-> "acquire", endpoint |-> e, st |-> "open"]]
    /\ LkFrame

\* `async with self._lock:` lines 21, 28, 36, 42, 60, 111
Acquire(c) ==
    /\ At(c) = "acquire" /\ ~lk.locked
    /\ lk' = AcquireLock(WithAt(lk, c, "body"), c)
    /\ LkFrame

\* connect_global line 22
ConnectGlobalAdd(c) ==
    /\ InSection(c, "connect_global", "body")
    /\ lk' = [WithAt(lk, c, "release") EXCEPT !.global_connections = @ \cup {Section(c).ws}]
    /\ LkFrame

\* connect_job lines 29-30
ConnectJobKey(c) ==
    /\ InSection(c, "connect_job", "body")
    /\ lk' = [WithAt(lk, c, "add") EXCEPT !.job_connections =
                 IF Section(c).jid \in DOMAIN @ THEN @ ELSE (Section(c).jid :> {}) @@ @]
    /\ LkFrame

\* connect_job line 31
ConnectJobAdd(c) ==
    /\ InSection(c, "connect_job", "add")
    /\ lk' = [WithAt(lk, c, "release") EXCEPT !.job_connections[Section(c).jid] = @ \cup {Section(c).ws}]
    /\ LkFrame

\* disconnect_global line 37
DisconnectGlobalDiscard(c) ==
    /\ InSection(c, "disconnect_global", "body")
    /\ lk' = [WithAt(lk, c, "release") EXCEPT !.global_connections = discard(@, Section(c).ws)]
    /\ LkFrame

\* disconnect_job lines 43-44
DisconnectJobDiscard(c) ==
    /\ InSection(c, "disconnect_job", "body")
    /\ lk' = IF Section(c).jid \in DOMAIN lk.job_connections
             THEN [WithAt(lk, c, "del") EXCEPT !.job_connections[Section(c).jid] = discard(@, Section(c).ws)]
             ELSE WithAt(lk, c, "release")
    /\ LkFrame

\* disconnect_job lines 45-46
DropEmptyKey_Keep(map, jid) == map
DropEmptyKey(map, jid) ==
    IF map[jid] = {} THEN [k \in DOMAIN map \ {jid} |-> map[k]] ELSE map

DisconnectJobDel(c) ==
    /\ InSection(c, "disconnect_job", "del")
    /\ lk' = [WithAt(lk, c, "release") EXCEPT !.job_connections = DropEmptyKey(@, Section(c).jid)]
    /\ LkFrame

\* dict.get(job_id, set())
Get(map, jid) == IF jid \in DOMAIN map THEN map[jid] ELSE {}

\* broadcast_job_update lines 61-62, broadcast_job_log line 112
TakeSnapshot ==
    /\ InSection(Publisher, "snapshot", "body")
    /\ lk' = [lk EXCEPT !.pub.at = "release",
                        !.pub.job_clients = AsList(Get(lk.job_connections, lk.pub.job)),
                        !.pub.global_clients = IF lk.pub.kind = "job_update"
                                               THEN AsList(lk.global_connections) ELSE <<>>]
    /\ LkFrame

\* the end of the `async with` block: the lock is released and the coroutine
\* goes on after its section
Release(c) ==
    /\ HoldsLock(c) /\ At(c) = "release"
    /\ LET l == ReleaseLock(WithAt(lk, c, "out")) IN
       lk' = IF c = Publisher
             THEN IF lk.pub.pc = "snapshot" THEN [l EXCEPT !.pub.pc = "send"]
                  ELSE [l EXCEPT !.pub.disconnected = Tail(@)]
             ELSE [l EXCEPT !.h[c].pc = IF @ = "connect" THEN "open" ELSE "closed"]
    /\ LkFrame

\* the peer closes the connection, or stops reading
PeerGoes(s) ==
    /\ lk.h[s].st \in {"open", "stalled"}
    /\ lk' = [lk EXCEPT !.h[s].st = "gone"]
    /\ LkFrame

PeerStops(s) ==
    /\ lk.h[s].st = "open"
    /\ lk' = [lk EXCEPT !.h[s].st = "stalled"]
    /\ LkFrame

\* ws.py lines 34-38 and 64-68: receive_text raises, the handler disconnects
HandlerLeaves(s) ==
    /\ lk.h[s].pc = "open" /\ lk.h[s].st = "gone" /\ Runs(s)
    /\ lk' = [lk EXCEPT !.h[s].pc = "disconnect", !.h[s].at = "acquire"]
    /\ LkFrame

\* broadcast_job_update lines 49-60, broadcast_job_log lines 100-111
PublishBegin(kind, j) ==
    /\ lk.pub.pc = "idle" /\ Runs(Publisher)
    /\ lk' = [lk EXCEPT !.pub = [pc |-> "snapshot", at |-> "acquire", kind |-> kind, job |-> j,
                                 job_clients |-> <<>>, global_clients |-> <<>>,
                                 disconnected |-> <<>>]]
    /\ LkFrame

\* the subscriber the publisher is sending to, 0 when the loops are over
SendingTo ==
    IF lk.pub.job_clients # <<>> THEN Head(lk.pub.job_clients)
    ELSE IF lk.pub.global_clients # <<>> THEN Head(lk.pub.global_clients)
    ELSE 0

\* lines 64-75 and 114-118: one send_text returns or raises
SendNext ==
    /\ lk.pub.pc = "send" /\ Runs(Publisher) /\ SendingTo # 0
    /\ lk.h[SendingTo].st # "stalled"
    /\ LET conn_type == IF lk.pub.job_clients # <<>> THEN "job" ELSE "global"
           failed == lk.h[SendingTo].st # "open" /\ lk.pub.kind = "job_update"
           d == [conn_type |-> conn_type, ws |-> SendingTo,
                 jid |-> IF conn_type = "job" THEN lk.pub.job ELSE None]
       IN lk' = [lk EXCEPT !.pub.job_clients = IF conn_type = "job" THEN Tail(@) ELSE @,
                           !.pub.global_clients = IF conn_type = "global" THEN Tail(@) ELSE @,
                           !.pub.disconnected = IF failed THEN Append(@, d) ELSE @]
    /\ LkFrame

\* the send loops are over
SendsDone ==
    /\ lk.pub.pc = "send" /\ Runs(Publisher) /\ SendingTo = 0
    /\ lk' = [lk EXCEPT !.pub.pc = "cleanup"]
    /\ LkFrame

\* lines 78-82: the next failed subscriber is disconnected
CleanupNext ==
    /\ lk.pub.pc = "cleanup" /\ Runs(Publisher) /\ lk.pub.disconnected # <<>>
    /\ lk' = [lk EXCEPT !.pub.at = "acquire"]
    /\ LkFrame

\* the broadcast returns
PublishReturn ==
    /\ lk.pub.pc = "cleanup" /\ Runs(Publisher) /\ lk.pub.disconnected = <<>>
    /\ lk' = [lk EXCEPT !.pub.pc = "idle", !.pub.kind = None, !.pub.job = None]
    /\ LkFrame

LockNext ==
    \/ \E s \in LkSockets, e \in WsJobs \cup {"global"} : Accept(s, e)
    \/ \E c \in Coroutines : Acquire(c)
    \/ \E c \in Coroutines : ConnectGlobalAdd(c)
    \/ \E c \in Coroutines : ConnectJobKey(c)
    \/ \E c \in Coroutines : ConnectJobAdd(c)
    \/ \E c \in Coroutines : DisconnectGlobalDiscard(c)
    \/ \E c \in Coroutines : DisconnectJobDiscard(c)
    \/ \E c \in Coroutines : DisconnectJobDel(c)
    \/ TakeSnapshot
    \/ \E c \in Coroutines : Release(c)
    \/ \E s \in LkSockets : PeerGoes(s)
    \/ \E s \in LkSockets : PeerStops(s)
    \/ \E s \in LkSockets : HandlerLeaves(s)
    \/ \E kind \in EventKinds : PublishBegin(kind, "j1")   \* the events published are those of j1
    \/ SendNext
    \/ SendsDone
    \/ CleanupNext
    \/ PublishReturn

(***************************************************************************)
(* middleware/rate_limit.py RateLimitMiddleware.dispatch.  Times are in    *)
(* seconds.  An address or a path is a sequence of pieces of text; the key *)
(* of a request is the text f"{client_ip}:{path}".  The section under the  *)
(* lock holds no await and is one step; requests wait before it and stay   *)
(* in call_next after it, so several are in flight at once.                *)
(***************************************************************************)
MaxRateClock == 60      \* the clock stops here
MaxWaiting == 2         \* requests that wait for the lock at the same time

LoginPath == "/api/auth/login"
\* X-Forwarded-For is taken as given (lines 57-59): an address may hold a
\* colon, and then two pairs of address and path have one key
Pairs ==
    {[ip |-> <<"c">>, path |-> <<LoginPath, ":", LoginPath>>],
     [ip |-> <<"c", ":", LoginPath>>, path |-> <<LoginPath>>]}

\* line 34
RateKey(ip, path) == ip \o <<":">> \o path

\* lines 22-27 and config.py lines 68-69; the requests of the model are
\* POST requests whose paths start with the login path
JobsPath == "/api/jobs"
rate_limit_uploads == 10
login_limit == 5
rate_limit_api == 100
StartsWith(path, prefix) == path # <<>> /\ path[1] = prefix
RateLimitOf(path, method) ==
    IF StartsWith(path, JobsPath) /\ method = "POST" THEN rate_limit_uploads
    ELSE IF StartsWith(path, LoginPath) THEN login_limit
    ELSE rate_limit_api

\* defaultdict(list): the list of a key, empty when the key was never used
RequestsOf(requests, key) == IF key \in DOMAIN requests THEN requests[key] ELSE <<>>

\* lines 31-38: timedelta(minutes=1); the timestamps newer than window_start stay
window_seconds == 60
InWindow(ts, now) == ts > now - window_seconds
Prune(list, now) == SelectSeq(list, LAMBDA ts : InWindow(ts, now))

\* line 40
OverLimit_Never(list, limit) == FALSE
OverLimit(list, limit) == Len(list) >= limit

RlFrame == UNCHANGED <<jobVars, sb, wsVars, ev, pb, tc, wv, hs, au, sf, ct, lk>>

\* twenty seconds pass
RateTick ==
    /\ rl.now + 20 <= MaxRateClock
    /\ rl' = [rl EXCEPT !.now = @ + 20]
    /\ RlFrame

\* lines 17-30: a request arrives; its address, path and limit are read and
\* it goes on to the lock
RateArrive(pair) ==
    /\ rl.arrived < MaxRateReqs /\ Len(rl.waiting) < MaxWaiting
    /\ rl' = [rl EXCEPT !.arrived = @ + 1, !.waiting = Append(@, pair)]
    /\ RlFrame

\* lines 30-53 for the i-th waiting request.  Under the lock: prune the list
\* of the key, answer 429 when it is full, else append now; after the lock
\* call_next forwards the request, which touches nothing of the limiter.
RateCheck(i) ==
    /\ i \in 1..Len(rl.waiting)
    /\ LET pair == rl.waiting[i]
           key == RateKey(pair.ip, pair.path)
           kept == Prune(RequestsOf(rl.requests, key), rl.now)
           rest == SubSeq(rl.waiting, 1, i - 1) \o SubSeq(rl.waiting, i + 1, Len(rl.waiting))
       IN IF OverLimit(kept, RateLimitOf(pair.path, "POST"))
          THEN rl' = [rl EXCEPT !.requests = (key :> kept) @@ @,
                                !.waiting = rest,
                                !.last = [ip |-> pair.ip, path |-> pair.path, code |-> 429]]
          ELSE rl' = [rl EXCEPT !.requests = (key :> Append(kept, rl.now)) @@ @,
                                !.fwd = Append(@, [ip |-> pair.ip, path |-> pair.path, at |-> rl.now]),
                                !.waiting = rest,
                                !.last = [ip |-> pair.ip, path |-> pair.path, code |-> 200]]
    /\ RlFrame

RateNext ==
    \/ RateTick
    \/ \E pair \in Pairs : RateArrive(pair)
    \/ \E i \in 1..MaxWaiting : RateCheck(i)

SandboxNext ==
    \/ \E o \in StepOutcomes : RunCommand(o)
    \/ \E o \in {"ok", "nonzero"} : RunPythonScript(o)
    \/ ProbeTools

SandboxInit == JobInit /\ sb \in SbCalls /\ WsInit /\ ev = EvIdle /\ pb = PbIdle /\ tc = TcIdle /\ wv = WvIdle /\ hs = HsIdle /\ au = AuIdle /\ sf = SfIdle /\ ct = CtIdle /\ lk = LkIdle /\ rl = RlIdle

SandboxSpec == SandboxInit /\ [][SandboxNext]_vars

Init == JobInit /\ sb = SbIdle /\ WsInit /\ ev = EvIdle /\ pb = PbIdle /\ tc = TcIdle /\ wv = WvIdle /\ hs = HsIdle /\ au = AuIdle /\ sf = SfIdle /\ ct = CtIdle /\ lk = LkIdle /\ rl = RlIdle

WsSpec == Init /\ [][WsNext]_vars

ContainerSpec == Init /\ [][ContainerNext]_vars

ToolCacheSpec == Init /\ [][ToolCacheNext]_vars

LockSpec == Init /\ [][LockNext]_vars

RateSpec == Init /\ [][RateNext]_vars

\* the broadcaster with peers that may stop reading
WsStallNext ==
    \/ WsNext
    \/ \E s \in Sockets : PeerStalls(s)

\* The event loop runs every coroutine that can continue: a send that can
\* complete does, the cleanup and the return follow, and a handler whose
\* connection has closed leaves.  Nothing is assumed of the peers.
WsFairSpec ==
    /\ Init /\ [][WsStallNext]_vars
    /\ WF_vars(SendJobClient) /\ WF_vars(SendGlobalClient)
    /\ WF_vars(BroadcastCleanup) /\ WF_vars(BroadcastReturn)
    /\ \A s \in Sockets : WF_vars(HandlerExit(s))

Next ==
    \/ \E r \in Reqs, j \in Jobs : RunJobCheck(r, j)
    \/ \E r \in Reqs : RunJobQueue(r)
    \/ \E w \in Workers, j \in Jobs : TaskBegin(w, j)
    \/ \E w \in Workers : SelectPlaybook(w)
    \/ \E w \in Workers, run \in PlaybookRuns : RunPlaybook(w, run)
    \/ \E w \in Workers : TaskTimeLimit(w)
    \/ \E w \in Workers : SaveCommand(w)
    \/ \E w \in Workers, cands \in RunCandidates : SaveDone(w, cands)
    \/ \E w \in Workers, ok \in BOOLEAN, msg \in ExcMsgs : GenerateWriteup(w, ok, msg)
    \/ \E w \in Workers : Complete(w)

Spec == Init /\ [][Next]_vars

\* The scheduling of the deployment: a handler or worker that can take a step
\* eventually takes one, and the Celery time limit eventually fires.
FairSpec == Init /\ [][Next]_vars /\ WF_vars(Next)

(***************************************************************************)
(* Claims about the job lifecycle                                          *)
(***************************************************************************)
StatusMoves ==
    {<<"pending", "queued">>, <<"queued", "running">>, <<"running", "completed">>,
     <<"running", "failed">>, <<"failed", "queued">>}

\* C1: a job's status changes only along pending -> queued -> running ->
\* completed | failed, the only backward move being failed -> queued; so no
\* job leaves completed and none enters running except from queued.
C1_StatusMoves ==
    [][\A j \in Jobs : status'[j] # status[j] => <<status[j], status'[j]>> \in StatusMoves]_vars

\* C2: a run request is accepted exactly when the status it finds is pending
\* or failed; a rejected request changes neither status nor timeline and
\* dispatches nothing; an accepted one sets the job to queued and dispatches
\* exactly one task; tasks are dispatched by accepted requests only.
C2_RunAcceptance ==
    [][/\ \A r \in Reqs :
            /\ (req[r].pc = "new" /\ req'[r].pc # "new") =>
                  /\ req'[r].job \in Jobs
                  /\ req'[r].seen = status[req'[r].job]
                  /\ (req'[r].pc = "accepted") <=> (req'[r].seen \in {"pending", "failed"})
                  /\ (req'[r].pc = "rejected") <=> (req'[r].seen \in {"queued", "running", "completed"})
                  /\ status' = status /\ timeline' = timeline /\ queue' = queue
            /\ (req[r].pc = "accepted" /\ req'[r].pc # "accepted") =>
                  /\ req'[r].pc = "done"
                  /\ status'[req[r].job] = "queued"
                  /\ queue'[req[r].job] = queue[req[r].job] + 1
            /\ req[r].pc = "rejected" => req'[r] = req[r]
       /\ \A j \in Jobs : queue'[j] > queue[j] =>
            \E r \in Reqs : req[r].job = j /\ req[r].pc = "accepted" /\ req'[r].pc = "done"
      ]_vars

\* C2 witness: after a first run failed, a request found the job failed, was
\* accepted and queued it again with one task dispatched.
C2_Witness ==
    \E r \in Reqs :
        /\ req[r].pc = "done" /\ req[r].seen = "failed"
        /\ status[req[r].job] = "queued" /\ queue[req[r].job] = 1

\* a request was rejected on a running job, which stays running
C2_RejectedOnRunning ==
    \E r \in Reqs :
        req[r].pc = "rejected" /\ req[r].seen = "running" /\ status[req[r].job] = "running"

\* the error field holds the text msg (an empty text and no text are alike)
MessageHeld(field, msg) == field = msg \/ (msg = "" /\ field = None)

\* C4: whenever a pipeline step raises while the job is running, the job is
\* failed with error_message holding the exception's text, and the exception
\* is re-raised to the task queue.
C4_FaultRecorded ==
    [][\A w \in Workers :
          (wk[w].pc \notin {"idle", "hung"} /\ wk'[w].pc = "idle" /\ wk'[w].last # "returned") =>
              /\ wk'[w].last = "raised"
              /\ status'[wk[w].job] = "failed"
              /\ MessageHeld(error_message'[wk[w].job], wk'[w].exc)]_vars

\* C7: a sandbox call that never finishes on its own is ended by the
\* configured ceiling: run returns a result for the step and the orchestrator
\* goes on, so a worker blocked in a sandbox call is eventually past the
\* playbook with its task still alive.
C7_HungStepReturns ==
    \A w \in Workers :
        (wk[w].pc = "hung") ~> (wk[w].pc \in {"save", "writeup", "finish"} \/ wk[w].last \in {"returned", "raised"})

\* C8: whenever run_playbook is over, by return or by exception, it has
\* produced exactly one result per playbook step, in step order.
C8_OneResultPerStep ==
    [][\A w \in Workers :
          (wk[w].pc = "steps" /\ wk'[w].pc \notin {"steps", "hung"}) =>
              /\ Len(wk'[w].results) = NumSteps
              /\ \A n \in 1..NumSteps : wk'[w].results[n].command_id = CommandId(n - 1)]_vars
(***************************************************************************)
(* Claims about the sandbox executor                                       *)
(***************************************************************************)
\* C3: for every tool whose base name is not in the allowlist, run_command
\* returns a result with exit code 1 and launches no container.
C3_DisallowedToolRejected ==
    (sb.op = "run_command" /\ sb.pc = "done" /\ PathName(sb.tool) \notin allowed_tools) =>
        /\ sb.result.end = "returned"
        /\ sb.result.exit_code = 1
        /\ sb.launched = <<>>

\* C3 witness: a tool given with a path whose base name is not allowlisted
\* was rejected.
C3_Witness ==
    /\ sb.op = "run_command" /\ sb.pc = "done"
    /\ sb.tool = <<".", ".", "/", "r", "m">>
    /\ sb.result.exit_code = 1 /\ sb.launched = <<>>

Contains(str, c) == \E i \in 1..Len(str) : str[i] = c

\* the arguments of a launched command, after the executable
DeliveredArgs(launch) == SubSeq(launch.command, 2, Len(launch.command))

\* C5: every argument that reaches the isolated process has whitelisted
\* characters only, so none carries a shell metacharacter or a path
\* separator, and none is the traversal sequence "..".
C5_ArgumentsSafe ==
    \A n \in 1..Len(sb.launched) :
        sb.launched[n].kind = "tool" =>
            \A i \in 1..Len(DeliveredArgs(sb.launched[n])) :
                LET arg == DeliveredArgs(sb.launched[n])[i] IN
                /\ \A k \in 1..Len(arg) : IsOptionChar(arg[k])
                /\ ~Contains(arg, "/") /\ ~Contains(arg, ";")
                /\ arg # <<".", ".">>

\* the isolation settings every launch is claimed to carry
CommonIsolation(l) ==
    /\ \A v \in l.volumes : v.mode = "ro"
    /\ l.network_disabled
    /\ l.user = "1000:1000" /\ l.user # "0:0"
    /\ l.cap_drop = {"ALL"}
    /\ "no-new-privileges" \in l.security_opt
    /\ l.remove

InputMountedReadOnly(l) == [bind |-> "/workspace", mode |-> "ro"] \in l.volumes

\* a script launch is the tool launch of the same command, but for the
\* writable root filesystem and the extra read-only script mount
RelaxesOnlyRootFs(l) ==
    [l EXCEPT !.read_only = TRUE, !.kind = "tool",
              !.volumes = @ \ {[bind |-> "/script", mode |-> "ro"]}] = ToolLaunch(l.command)

\* C6 as stated: every container launch has the input directory mounted
\* read-only, the network disabled, the fixed non-root user, all capabilities
\* dropped, no-new-privileges and removal; a tool launch has a read-only root
\* filesystem and the script launch relaxes only that.
C6_EveryLaunchMountsInput ==
    \A n \in 1..Len(sb.launched) :
        LET l == sb.launched[n] IN
        /\ CommonIsolation(l)
        /\ InputMountedReadOnly(l)
        /\ l.kind = "tool" => l.read_only
        /\ l.kind = "script" => RelaxesOnlyRootFs(l)

\* C6 amended: every container launch mounts what it mounts read-only, has
\* the network disabled, the fixed non-root user, all capabilities dropped,
\* no-new-privileges and removal; tool and script launches mount the input
\* directory read-only at /workspace, while the tool-availability probe mounts
\* only its own script; a tool launch has a read-only root filesystem and the
\* script launch relaxes only that.
C6_IsolationPolicy ==
    \A n \in 1..Len(sb.launched) :
        LET l == sb.launched[n] IN
        /\ CommonIsolation(l)
        /\ l.kind \in {"tool", "script"} => InputMountedReadOnly(l)
        /\ l.kind = "probe" => l.volumes = {[bind |-> "/tmp/check_tools.py", mode |-> "ro"]}
        /\ l.kind = "tool" => l.read_only
        /\ l.kind = "script" => RelaxesOnlyRootFs(l)

\* C6 witness: the probe of the sandbox image was launched, without the
\* input directory and with a writable root filesystem
C6_Witness ==
    /\ sb.op = "check_tool_availability" /\ sb.pc = "done"
    /\ Len(sb.launched) = 1
    /\ ~InputMountedReadOnly(sb.launched[1])
    /\ ~sb.launched[1].read_only

(***************************************************************************)
(* Claims about the WebSocket broadcaster                                  *)
(***************************************************************************)
\* the subscribers of the published job and the global subscribers when the
\* broadcast was called
JobSubscribersThen == pub.then.job_connections[pub.job]
GlobalSubscribersThen == pub.then.global_connections

\* sockets registered for a job other than the published one
OtherJobSockets == {s \in Sockets : sock[s].endpoint \in WsJobs \ {pub.job}}

\* C9: when a status-update broadcast has returned, every subscriber whose
\* send failed is in neither the per-job set nor the global set, the send was
\* attempted on every subscriber of the job and every global subscriber, and
\* every one of them whose connection is open has received the event.
C9_FailedSubscriberRemoved ==
    (pub.pc = "returned" /\ pub.kind = "job_update") =>
        /\ \A s \in pub.sent \ pub.received :
              s \notin job_connections[pub.job] /\ s \notin global_connections
        /\ pub.sent = JobSubscribersThen \cup GlobalSubscribersThen
        /\ \A s \in pub.sent : sock[s].st = "open" => s \in pub.received

\* C9 witness: a status update failed on a per-job subscriber whose handler
\* has not left yet, a subscriber after it in the send order received the
\* event, and the broadcast returned.
C9_Witness ==
    /\ pub.pc = "returned" /\ pub.kind = "job_update"
    /\ \E s \in pub.sent \ pub.received, t \in pub.received :
          /\ s < t
          /\ sock[s].st = "gone" /\ sock[s].endpoint = pub.job
          /\ s \notin job_connections[pub.job]

\* C10 as stated: a returned broadcast of either kind has sent the event to
\* every subscriber of the job and to every global subscriber, and to no
\* socket registered for a different job.
C10_BothKindsReachGlobal ==
    pub.pc = "returned" =>
        /\ pub.sent = JobSubscribersThen \cup GlobalSubscribersThen
        /\ pub.sent \cap OtherJobSockets = {}

\* C10 amended: a returned status-update broadcast has sent the event to
\* every subscriber of the job and to every global subscriber; a returned
\* log-line broadcast has sent it to the subscribers of the job only, not to
\* the global subscribers; neither sends to a socket registered for a
\* different job.
C10_PublishTargets ==
    pub.pc = "returned" =>
        /\ pub.kind = "job_update" => pub.sent = JobSubscribersThen \cup GlobalSubscribersThen
        /\ pub.kind = "job_log" => pub.sent = JobSubscribersThen
        /\ pub.sent \cap OtherJobSockets = {}

\* C10 witness: a log line was broadcast while the job had a subscriber,
\* another job had one, and there was a global subscriber, which got nothing.
C10_Witness ==
    /\ pub.pc = "returned" /\ pub.kind = "job_log"
    /\ JobSubscribersThen # {} /\ pub.sent = JobSubscribersThen
    /\ GlobalSubscribersThen # {} /\ GlobalSubscribersThen \cap pub.sent = {}
    /\ \E k \in WsJobs \ {pub.job} : pub.then.job_connections[k] # {}
\* the subscribers of the snapshot the broadcast has not sent to yet
PendingClients ==
    {pub.job_clients[i] : i \in 1..Len(pub.job_clients)}
        \cup {pub.global_clients[i] : i \in 1..Len(pub.global_clients)}

\* C11: during a status-update broadcast, a subscriber of the snapshot whose connection is open is eventually
\* sent the event (or its peer stops being open), whatever the other
\* subscribers do: a send that is slow or never completes stalls nobody else.
C11_StalledSendDoesNotStall ==
    \A s \in Sockets :
        (pub.pc = "send" /\ pub.kind = "job_update" /\ s \in PendingClients /\ sock[s].st = "open")
            ~> (s \in pub.sent \/ sock[s].st # "open")
\* C12: every status a job moves to (queued, running, completed, failed) is
\* followed by a status-update broadcast for that job.
C12_TransitionPublished ==
    \A j \in Jobs : \A s \in JobStatus \ {"pending"} :
        (status[j] = s) ~> (pub.pc # "idle" /\ pub.kind = "job_update" /\ pub.job = j)
\* the identifiers of the Command rows of job j, in insertion order
RECURSIVE CommandIdsOf(_, _)
CommandIdsOf(rows, j) ==
    IF rows = <<>> THEN <<>>
    ELSE IF Head(rows).job_id = j THEN <<Head(rows).id>> \o CommandIdsOf(Tail(rows), j)
    ELSE CommandIdsOf(Tail(rows), j)

\* C13: the Command rows persisted for a job, over all its runs, carry
\* pairwise different identifiers, and the n-th row persisted carries the
\* identifier of the n-th step executed.
C13_CommandIdsUnique ==
    \A j \in Jobs :
        LET ids == CommandIdsOf(commands, j) IN
        /\ \A a, b \in 1..Len(ids) : ids[a] = ids[b] => a = b
        /\ \A n \in 1..Len(ids) : ids[n] = CommandId(n - 1)

\* C13 witness: a run after a failed run that had persisted all its commands
\* tried to persist its own and was refused on the first identifier.
C13_Witness ==
    \E w \in Workers :
        /\ wk[w].pc = "idle" /\ wk[w].last = "raised" /\ wk[w].exc = PendingRollbackMsg
        /\ Len(CommandIdsOf(commands, wk[w].job)) = NumSteps
        /\ commands_executed[wk[w].job] = NumSteps
(***************************************************************************)
(* Claims about the evidence extractor                                     *)
(***************************************************************************)
\* the literals that occur in the outputs of the call
OccurringLiterals ==
    UNION {{LiteralsOf(ev.command_results[n].stdout)[i] :
               i \in 1..Len(LiteralsOf(ev.command_results[n].stdout))} :
           n \in 1..Len(ev.command_results)}

\* the values some applied pattern matches
MatchedValues ==
    {l \in OccurringLiterals :
        \E k \in 1..Len(CompiledPatterns(ev.custom_pattern)) :
            l.prefix \in CompiledPatterns(ev.custom_pattern)[k]}

\* how often a literal occurs in an output
Occurrences(stdout, l) ==
    Cardinality({i \in 1..Len(LiteralsOf(stdout)) : LiteralsOf(stdout)[i] = l})

\* C15: the candidates extract_flags returns carry pairwise different
\* values, and there is one for each value some pattern matches in some
\* output.
C15_OneCandidatePerValue ==
    (ev.pc = "done" /\ ev.end = "returned") =>
        /\ \A a, b \in 1..Len(ev.candidates) :
              ev.candidates[a].value = ev.candidates[b].value => a = b
        /\ {ev.candidates[a].value : a \in 1..Len(ev.candidates)} = MatchedValues

\* C15 witness: a value that occurs twice in one output, again in a second
\* output, and is matched by the custom and by a default pattern, came back
\* as one candidate.
C15_Witness ==
    /\ ev.pc = "done" /\ ev.end = "returned" /\ ev.custom_pattern = "ctf_anycase"
    /\ Len(ev.command_results) = 2
    /\ Occurrences(ev.command_results[1].stdout, LitUpper) = 2
    /\ Occurrences(ev.command_results[2].stdout, LitUpper) = 1
    /\ Len(ev.candidates) = 1 /\ ev.candidates[1].value = LitUpper

\* C16: every candidate returned has 0.1 <= confidence <= 1.0 (in tenths).
C16_ConfidenceBounded ==
    ev.pc = "done" =>
        \A a \in 1..Len(ev.candidates) :
            1 <= ev.candidates[a].confidence /\ ev.candidates[a].confidence <= 10

\* C16 witness: an over-long match in a noisy line of a tool without bonus,
\* whose score before the clamp is 0, came back with 0.1.
C16_Witness ==
    /\ ev.pc = "done" /\ Len(ev.candidates) = 1
    /\ ev.candidates[1].value.len = "long" /\ ev.candidates[1].source = "file"
    /\ FirstLineNoisy(ev.command_results[1].stdout, ev.candidates[1].value)
    /\ ev.candidates[1].confidence = 1

\* the result a candidate was found in
ResultOf(cand) ==
    CHOOSE r \in {ev.command_results[n] : n \in 1..Len(ev.command_results)} :
        r.command_id = cand.evidence_id

C18_InvalidPatternDropped ==
    (ev.pc = "done" /\ ev.custom_pattern = "bad_syntax") =>
        /\ ev.end = "returned"
        /\ ev.candidates = extract_flags(ev.command_results, None).candidates

\* C18 witness: a call with a syntax error in the custom pattern returned the
\* match of a default pattern, over an output that also holds a literal only
\* a compiled custom pattern would match.
C18_Witness ==
    /\ ev.pc = "done" /\ ev.custom_pattern = "bad_syntax" /\ ev.end = "returned"
    /\ LitMixed \in OccurringLiterals
    /\ Len(ev.candidates) = 1 /\ ev.candidates[1].value = LitUpper
\* the values of the FlagCandidate rows of job j, in insertion order
RECURSIVE FlagValuesOf(_, _)
FlagValuesOf(rows, j) ==
    IF rows = <<>> THEN <<>>
    ELSE IF Head(rows).job_id = j THEN <<Head(rows).value>> \o FlagValuesOf(Tail(rows), j)
    ELSE FlagValuesOf(Tail(rows), j)

\* C14: at all times the FlagCandidate rows of a job carry pairwise
\* different values, whatever runs of the job have written them.
C14_OneRowPerValue ==
    \A j \in Jobs :
        LET vals == FlagValuesOf(flag_candidates, j) IN
        \A a, b \in 1..Len(vals) : vals[a] = vals[b] => a = b

\* C14 witness: a run persisted a candidate and failed afterwards, the job
\* was run again, and the later run ended without a second row.
C14_Witness ==
    \E w \in Workers :
        /\ wk[w].pc = "idle" /\ wk[w].last = "raised" /\ wk[w].exc = PendingRollbackMsg
        /\ FlagValuesOf(flag_candidates, wk[w].job) = <<LitUpper>>
        /\ status[wk[w].job] = "running"
\* the categories in falling precedence, each with the suffixes that match it
Precedence ==
    <<[playbook |-> "network", suffixes |-> {".pcap", ".pcapng"}],
      [playbook |-> "pdf", suffixes |-> {".pdf"}],
      [playbook |-> "pwn", suffixes |-> {".elf", ".exe", ".bin", ".so", ".dll"}],
      [playbook |-> "reversing", suffixes |-> {".pyc", ".class"}],
      [playbook |-> "stego", suffixes |-> {".png", ".jpg", ".jpeg", ".gif", ".bmp"}],
      [playbook |-> "audio_stego", suffixes |-> {".wav", ".mp3", ".flac"}],
      [playbook |-> "forensics", suffixes |-> {".zip", ".tar", ".gz", ".7z", ".rar"}],
      [playbook |-> "memory_forensics", suffixes |-> {".img", ".raw", ".dd", ".mem", ".vmem"}],
      [playbook |-> "crypto", suffixes |-> {".enc", ".aes", ".rsa", ".pem", ".key"}],
      [playbook |-> "web", suffixes |-> {".html", ".php", ".js"}]>>

\* some file of the list matches category k
Matches(files, k) == \E i \in 1..Len(files) : Lower(files[i].suffix) \in Precedence[k].suffixes

\* the playbook of the highest category a file of the list matches
ExpectedPlaybook(files) ==
    IF \E k \in 1..Len(Precedence) : Matches(files, k)
    THEN Precedence[CHOOSE k \in 1..Len(Precedence) :
                        Matches(files, k) /\ \A h \in 1..(k - 1) : ~Matches(files, h)].playbook
    ELSE IF \E i \in 1..Len(files) : HasKeyword(files[i]) THEN "crypto"
    ELSE "default"

\* C19: for every list of file names the selected playbook is the one of the
\* highest-precedence category any file matches (suffixes compared without
\* regard to case, then the keyword fallback, then the default); a list
\* holding a capture file selects the network playbook, and the first step
\* of that playbook runs the tool file.
C19_SelectionFollowsPrecedence ==
    (pb.op = "select" /\ pb.pc = "done") =>
        /\ pb.selected = ExpectedPlaybook(pb.files)
        /\ (\E i \in 1..Len(pb.files) : Lower(pb.files[i].suffix) \in {".pcap", ".pcapng"}) =>
              /\ pb.selected = "network"
              /\ load_playbook(pb.selected).steps[1].tool = "file"

\* C19 witness: a list of a document with a keyword in its name followed by
\* a capture file with an upper-case suffix selected the network playbook.
C19_Witness ==
    /\ pb.op = "select" /\ pb.pc = "done"
    /\ pb.files = <<[stem |-> "Flag_1", suffix |-> ".pdf"], [stem |-> "capture", suffix |-> ".PCAPNG"]>>
    /\ pb.selected = "network"

\* the names of the regular files of a listing, in the listing's order
RegularNames(listing) ==
    LET regular == SelectSeq(listing, LAMBDA e : e.is_file) IN
    [i \in 1..Len(regular) |-> regular[i].name]

\* how many resolved arguments one argument of the step stands for
Width(arg, listing) ==
    IF arg = FilesToken THEN Len(RegularNames(listing))
    ELSE IF Head(arg) = "{" /\ arg[Len(arg)] = "}" THEN 0
    ELSE 1

\* the number of resolved arguments that come from the first n arguments
RECURSIVE Offset(_, _, _)
Offset(args, listing, n) ==
    IF n = 0 THEN 0 ELSE Offset(args, listing, n - 1) + Width(args[n], listing)

\* C20: in the resolved arguments of a step every {files} token stands as
\* the names of all regular files of the working directory, every other
\* token in braces is absent, and every other argument stands unchanged, all
\* in the order of the step's arguments.
C20_ArgumentsResolved ==
    (pb.op = "resolve" /\ pb.pc = "done") =>
        LET names == RegularNames(pb.listing)
            at(i) == Offset(pb.args, pb.listing, i - 1)
        IN
        /\ Len(pb.resolved) = Offset(pb.args, pb.listing, Len(pb.args))
        /\ \A i \in 1..Len(pb.args) :
              /\ pb.args[i] = FilesToken =>
                    SubSeq(pb.resolved, at(i) + 1, at(i) + Len(names)) = names
              /\ Width(pb.args[i], pb.listing) = 1 /\ pb.args[i] # FilesToken =>
                    pb.resolved[at(i) + 1] = pb.args[i]

\* C20 witness: a step with an unknown placeholder, the {files} token and a
\* plain option was resolved in a directory holding a subdirectory and one
\* regular file.
C20_Witness ==
    /\ pb.op = "resolve" /\ pb.pc = "done"
    /\ pb.args = <<<<"{", "t", "}">>, FilesToken, <<"-", "n">>>>
    /\ pb.listing = <<[name |-> <<"s", "u", "b">>, is_file |-> FALSE],
                      [name |-> <<"a", ".", "b">>, is_file |-> TRUE]>>
    /\ pb.resolved = <<<<"a", ".", "b">>, <<"-", "n">>>>
\* C21: a step that marks a job failed leaves every Command row and every
\* FlagCandidate row that was persisted before it in place and unchanged,
\* and so does every later step: rows are only ever added.
C21_FaultKeepsRecords ==
    [][/\ Len(commands') >= Len(commands)
       /\ Len(flag_candidates') >= Len(flag_candidates)
       /\ SubSeq(commands', 1, Len(commands)) = commands
       /\ SubSeq(flag_candidates', 1, Len(flag_candidates)) = flag_candidates
       /\ \A j \in Jobs : (status[j] # "failed" /\ status'[j] = "failed") =>
             (commands' = commands /\ flag_candidates' = flag_candidates)]_vars

\* C21 witness: report generation raised after the run had persisted two
\* commands and a flag candidate; the job is failed and the rows are there.
C21_Witness ==
    \E w \in Workers :
        /\ wk[w].pc = "idle" /\ wk[w].last = "raised" /\ wk[w].exc = "http"
        /\ status[wk[w].job] = "failed"
        /\ Len(commands) = 2 /\ \A i \in 1..2 : commands[i].job_id = wk[w].job
        /\ FlagValuesOf(flag_candidates, wk[w].job) = <<LitUpper>>
\* C22: a task whose pipeline fault was re-raised to the task queue is
\* attempted again by the queue: the worker that raised eventually runs a task.
C22_FaultReattempted ==
    \A w \in Workers : (wk[w].pc = "idle" /\ wk[w].last = "raised") ~> (wk[w].pc # "idle")
\* C23: a request without forced refresh that comes less than cache_age after
\* an earlier probe is answered from the cache without a new probe, whichever
\* handler serves it; a request with forced refresh probes again.
C23_CachedWithinTtl ==
    \A k \in 1..Len(tc.log) :
        LET q == tc.log[k] IN
        /\ q.refresh => q.probed
        /\ (/\ ~q.refresh
            /\ \E i \in 1..(k - 1) : tc.log[i].probed /\ q.at - tc.log[i].at < cache_age)
              => (q.cached /\ ~q.probed)
\* the step identifiers a report text names: every "cmd_" followed by digits,
\* taken with all the digits that follow it
NamedIds(text) ==
    {SubSeq(text, i, j) : <<i, j>> \in
        {p \in (1..Len(text)) \X (1..Len(text)) :
            /\ CmdAt(text, p[1]) /\ p[2] >= p[1] + 4
            /\ \A k \in (p[1] + 4)..p[2] : IsDigit(text[k])
            /\ (p[2] < Len(text) => ~IsDigit(text[p[2] + 1]))}}

\* C24: a validated report carries the warning if and only if it names a
\* step identifier outside the evidence pack's command ids, and its own text
\* is saved as it was.
C24_WarningIffUnknownId ==
    wv.pc = "done" =>
        /\ wv.body = wv.writeup
        /\ (wv.warning # {}) <=> (\E id \in NamedIds(wv.writeup) : id \notin wv.command_ids)

\* C24 witness: the report "cmd_001cmd_2" was validated against a run of two
\* steps and got the warning, for cmd_2 alone.
C24_Witness ==
    /\ wv.pc = "done"
    /\ wv.writeup = CommandIdText(1) \o <<"c", "m", "d", "_", "2">>
    /\ wv.command_ids = PackCommandIds(2)
    /\ wv.warning = {<<"c", "m", "d", "_", "2">>}
\* the records of the queried category
OfCategory == {i \in 1..Len(hs.ledger) : hs.ledger[i].category = hs.category}

Kept == {hs.shortlist[k] : k \in 1..Len(hs.shortlist)}

\* C25: the shortlist of a query holds the limit records of the category with
\* the largest overlap with the query's file types (all of them when there
\* are fewer): no record of the category that is left out has a strictly
\* larger overlap than a record that is kept.
C25_ShortlistIsTopN ==
    hs.pc = "done" =>
        /\ Kept \subseteq OfCategory
        /\ \A left \in OfCategory \ Kept : \A kept \in Kept :
              score_match(hs.ledger[left], hs.file_types) <= score_match(hs.ledger[kept], hs.file_types)
\* a step that serves a request to a job endpoint
JobRequestServed == au'.served = au.served + 1 /\ au'.last.op = "job"

C28_NameAtMost200 ==
    (sf.pc = "done" /\ sf.end = "returned") => NameLen(sf.safe_name) <= NameLimit
\* the workers executing the pipeline of job j
Executing(j) == {w \in Workers : wk[w].pc # "idle" /\ wk[w].job = j}

\* C29: no two workers execute the pipeline of the same job at the same
\* time, and at most one task of a job is in flight (dispatched and not yet
\* ended), however the run requests for the job arrive.
C29_OneTaskPerJob ==
    \A j \in Jobs :
        /\ Cardinality(Executing(j)) <= 1
        /\ queue[j] + Cardinality(Executing(j)) <= 1
\* C30: at any moment at most one sandbox container of the job is alive:
\* the steps of the playbook do not overlap one another, and no terminal
\* command of the job runs while a step is in progress.
C30_OneContainerPerJob == Cardinality(ct.active) <= 1
(***************************************************************************)
(* Claims about termination, batches and the timeline                      *)
(***************************************************************************)
\* a sandbox call of a run of job j did not come back: a worker is blocked in
\* it, or was killed in it by the time limit
CallNeverReturned(j) ==
    \E w \in Workers : wk[w].job = j /\ (wk[w].pc = "hung" \/ wk[w].last = "killed")

\* C31: under fair scheduling every job that a worker has set to running
\* eventually is completed or failed, unless one of its sandbox calls never
\* returns; a persistence fault is no exception.
C31_RunningJobEnds ==
    \A j \in Jobs :
        (status[j] = "running" /\ ~CallNeverReturned(j))
            ~> (status[j] \in {"completed", "failed"} \/ CallNeverReturned(j))
\* the results of the batch of worker w that have a Command row
PersistedOfBatch(w) ==
    {n \in 1..Len(wk[w].results) :
        \E i \in 1..Len(commands) :
            commands[i].id = wk[w].results[n].command_id /\ commands[i].job_id = wk[w].job}

\* C32: the Command rows of a batch are committed together: at no time does
\* the table hold some but not all rows of the batch a worker is persisting,
\* and the counter of the job never stands between zero and the batch size.
C32_BatchCommittedWhole ==
    \A w \in Workers :
        wk[w].pc = "save" =>
            /\ PersistedOfBatch(w) \in {{}, 1..Len(wk[w].results)}
            /\ commands_executed[wk[w].job] \in {0, Len(wk[w].results)}
(***************************************************************************)
(* Claims about the broadcaster's lock                                     *)
(***************************************************************************)
\* the publisher is inside a send loop; the send to a peer that does not
\* read stays pending
SendInProgress == lk.pub.pc = "send"
BlockedInSend == lk.pub.pc = "send" /\ SendingTo # 0 /\ lk.h[SendingTo].st = "stalled"

\* the step takes the publisher's snapshot of the subscribers
SnapshotTaken ==
    lk.pub.pc = "snapshot" /\ lk.pub.at = "body" /\ lk'.pub.at # "body"

\* C33: every step that adds to or removes from a subscriber set, and every
\* step that snapshots them, is taken by the coroutine that holds the lock
\* and keeps holding it; the publisher never holds the lock while it is in
\* a send loop, so the lock is free for a handler while a send is pending.
C33_SetsChangeUnderLock ==
    [][/\ (lk'.job_connections # lk.job_connections
             \/ lk'.global_connections # lk.global_connections
             \/ SnapshotTaken) =>
            (lk.locked /\ lk'.locked /\ lk'.holder = lk.holder /\ At(lk.holder) # "release")
       /\ SnapshotTaken => lk.holder = Publisher
       /\ SendInProgress => ~HoldsLock(Publisher)
       /\ (BlockedInSend /\ lk.locked) => At(lk.holder) # "out"]_vars

\* C33 witness: the publisher is blocked in a send to a stalled subscriber
\* while a handler holds the lock at the end of connect_job, its socket
\* added to the set after the snapshot was taken.
C33_Witness ==
    /\ BlockedInSend
    /\ \E s \in LkSockets :
          /\ HoldsLock(s) /\ At(s) = "release" /\ lk.h[s].pc = "connect"
          /\ lk.h[s].endpoint = lk.pub.job
          /\ s \in lk.job_connections[lk.pub.job]
          /\ \A i \in 1..Len(lk.pub.job_clients) : lk.pub.job_clients[i] # s

\* C39: whenever the lock is free, no key of job_connections is mapped to an
\* empty set.
C39_NoEmptySetWhenLockFree ==
    ~lk.locked => \A j \in DOMAIN lk.job_connections : lk.job_connections[j] # {}

\* C39 witness: the cleanup of a broadcast has removed the last subscriber
\* of a job, whose handler has not left yet, and the key is gone while the
\* other job still has its subscriber.
C39_Witness ==
    /\ ~lk.locked
    /\ \E s \in LkSockets :
          /\ lk.h[s].pc = "open" /\ lk.h[s].st = "gone" /\ lk.h[s].endpoint = "j1"
          /\ "j1" \notin DOMAIN lk.job_connections
    /\ "j2" \in DOMAIN lk.job_connections
(***************************************************************************)
(* Claims about the timeline, the counter and the error message            *)
(***************************************************************************)
\* the run request r queues job j in this step (run_job lines 168-174)
Queues(r, j) == req[r].pc = "accepted" /\ req'[r].pc = "done" /\ req[r].job = j

\* the update_status call of worker w writes the row of job j in this step
WritesStatus(w, j) ==
    /\ wk'[w].job = j
    /\ \/ wk[w].pc = "idle" /\ wk'[w].pc = "running"
       \/ /\ wk[w].pc # "idle" /\ wk'[w].pc = "idle"
          /\ wk'[w].last \in {"returned", "raised"} /\ wk'[w].exc # PendingRollbackMsg

\* C34: the timeline of a job only grows at its end: every step leaves the
\* events recorded before it in place and in order, and a step in which a
\* run request queues the job or a worker updates its status has added its
\* event at the end.
C34_TimelineAppendOnly ==
    [][\A j \in Jobs :
          /\ Len(timeline'[j]) >= Len(timeline[j])
          /\ SubSeq(timeline'[j], 1, Len(timeline[j])) = timeline[j]
          /\ \A r \in Reqs : Queues(r, j) => Len(timeline'[j]) = Len(timeline[j]) + 1
          /\ \A w \in Workers : WritesStatus(w, j) => Len(timeline'[j]) = Len(timeline[j]) + 1]_vars
\* the events a run records before its completion, in the order of tasks.py
RunEvents ==
    <<"Analysis started", "Selected playbook", "Executed commands", "Found flag candidates",
      "Generating writeup", "Writeup generated">>

\* sub occurs in s in order, not necessarily side by side
RECURSIVE OccursInOrder(_, _)
OccursInOrder(sub, s) ==
    IF sub = <<>> THEN TRUE
    ELSE IF s = <<>> THEN FALSE
    ELSE IF Head(sub) = Head(s) THEN OccursInOrder(Tail(sub), Tail(s))
    ELSE OccursInOrder(sub, Tail(s))

\* C35: a step marks a job completed only when the worker that takes it has
\* run all steps of the playbook, has stored a Command row for each of them,
\* has passed extraction, the candidate rows and report generation (their
\* events are on the timeline in that order), and the completion event is
\* the last thing the run writes: the worker ends with it.
C35_CompletedAfterAllStages ==
    [][\A j \in Jobs :
          (status'[j] = "completed" /\ status[j] # "completed") =>
              \E w \in Workers :
                  /\ wk[w].job = j /\ wk[w].pc = "finish"
                  /\ Len(wk[w].results) = NumSteps /\ wk[w].saved = NumSteps
                  /\ \A n \in 1..NumSteps :
                        \E i \in 1..Len(commands) :
                            commands[i] = [id |-> wk[w].results[n].command_id, job_id |-> j]
                  /\ OccursInOrder(RunEvents, timeline[j])
                  /\ timeline'[j] = Append(timeline[j], "Analysis completed successfully")
                  /\ wk'[w].pc = "idle" /\ wk'[w].last = "returned"]_vars

\* C35 witness: a run went through every stage and completed the job; the
\* timeline holds its events and the completion event last.
C35_Witness ==
    \E w \in Workers :
        /\ wk[w].pc = "idle" /\ wk[w].last = "returned" /\ status[wk[w].job] = "completed"
        /\ timeline[wk[w].job] =
              <<"Job created">> \o RunEvents \o <<"Analysis completed successfully">>
        /\ Len(commands) = NumSteps
        /\ FlagValuesOf(flag_candidates, wk[w].job) = <<LitUpper>>
(***************************************************************************)
(* Further claims about the sandbox executor                               *)
(***************************************************************************)
\* C36: in every container run_command launches, the executable named in
\* the command is itself an entry of the allowlist, a bare name without
\* path components.
C36_LaunchedNameAllowlisted ==
    \A i \in 1..Len(sb.launched) :
        sb.launched[i].kind = "tool" => sb.launched[i].command[1] \in allowed_tools
\* a run of job j has stored a part of its batch and not yet all of it
MidBatch(j) ==
    \E w \in Workers :
        wk[w].job = j /\ wk[w].pc = "save" /\ 0 < wk[w].saved /\ wk[w].saved < Len(wk[w].results)

\* C37: whenever no run of a job is in the middle of storing its batch, the
\* job's commands_executed equals the number of Command rows of the job.
C37_CounterMatchesRows ==
    \A j \in Jobs : ~MidBatch(j) => commands_executed[j] = Len(CommandIdsOf(commands, j))

\* C37 witness: a first run stored its batch and failed in report
\* generation, the job was run again, and the second run was refused on its
\* first row; counter and rows both stand at the size of one batch.
C37_Witness ==
    \E w \in Workers, r \in Reqs :
        /\ wk[w].pc = "idle" /\ wk[w].exc = PendingRollbackMsg
        /\ req[r].pc = "done" /\ req[r].seen = "failed" /\ req[r].job = wk[w].job
        /\ error_message[wk[w].job] \in ExcMsgs
        /\ commands_executed[wk[w].job] = NumSteps
        /\ Len(CommandIdsOf(commands, wk[w].job)) = NumSteps
\* C38: in every state a job whose status is completed has no error
\* message, whatever its earlier runs did.
C38_CompletedHasNoError ==
    \A j \in Jobs : status[j] = "completed" => error_message[j] = None
(***************************************************************************)
(* Claims about the rate limiter                                           *)
(***************************************************************************)
\* the requests of a pair of address and path that were forwarded at a time
\* in the window of window_seconds that starts at a
ForwardedInWindow(pair, a) ==
    {i \in 1..Len(rl.fwd) :
        /\ rl.fwd[i].ip = pair.ip /\ rl.fwd[i].path = pair.path
        /\ a <= rl.fwd[i].at /\ rl.fwd[i].at < a + window_seconds}

\* the times at which requests of a key were forwarded, in order
RECURSIVE ForwardTimes(_, _)
ForwardTimes(fwd, key) ==
    IF fwd = <<>> THEN <<>>
    ELSE IF RateKey(Head(fwd).ip, Head(fwd).path) = key
         THEN <<Head(fwd).at>> \o ForwardTimes(Tail(fwd), key)
         ELSE ForwardTimes(Tail(fwd), key)

IsSuffix(s, t) == Len(s) <= Len(t) /\ s = SubSeq(t, Len(t) - Len(s) + 1, Len(t))

\* C40: for every pair of address and path, at most `limit` of its requests
\* (5 on a login path) are forwarded within any window of 60 seconds, in
\* whatever order the waiting requests pass the lock; and the timestamps kept
\* for a key are those of forwarded requests only, the latest ones: a request
\* answered 429 is not among the forwarded and leaves no timestamp.
C40_AtMostLimitPerWindow ==
    /\ \A pair \in Pairs : \A a \in 0..MaxRateClock :
          Cardinality(ForwardedInWindow(pair, a)) <= RateLimitOf(pair.path, "POST")
    /\ \A key \in DOMAIN rl.requests : IsSuffix(rl.requests[key], ForwardTimes(rl.fwd, key))
    /\ rl.arrived >= Len(rl.waiting) + Len(rl.fwd)
    /\ rl.last.code = 429 => rl.arrived > Len(rl.waiting) + Len(rl.fwd)

\* C40 witness: five requests of one pair were forwarded within forty
\* seconds, the sixth of that pair has just been answered 429 while another
\* request waits for the lock, and the list of the key still holds five.
C40_Witness ==
    /\ rl.last.code = 429 /\ rl.now = 40 /\ Len(rl.waiting) = 1
    /\ Len(rl.fwd) = login_limit
    /\ \A i \in 1..Len(rl.fwd) : rl.fwd[i].ip = rl.last.ip /\ rl.fwd[i].path = rl.last.path
    /\ Len(rl.requests[RateKey(rl.last.ip, rl.last.path)]) = login_limit
====
